---- MODULE Spec2Model ----
(***************************************************************************)
(* Retrieval-augmented document generation pipeline (AI Pre-Sales          *)
(* Copilot): the statement-of-work assembler, the simple stage drivers     *)
(* and the response parser they share, as state machines over one request. *)
(*                                                                         *)
(* Texts are sequences of tokens.  A token is a tuple whose first element  *)
(* names it: a backtick, the word json, a brace, a comma, white space, a   *)
(* word of prose, or one JSON member "key": value.  JSON values are        *)
(* records [t, m, items, id]: the JSON type, for an object the schema      *)
(* model whose fields it has, for a list its items, and a serial number    *)
(* that tells two values of the same shape apart.                          *)
(***************************************************************************)
EXTENDS Integers, Sequences, FiniteSets, TLC

VARIABLES
    kind,                 \* which operation the request runs
    pc,                   \* position of the request in its code
    requirements,         \* structured_requirements argument
    document_type,        \* document_type argument ("" for None)
    retrieved,            \* result of retrieve_similar_projects
    sections,             \* section names the loop iterates over
    activities,           \* activities list of the index response
    sec_idx,              \* position of the loop in sections (1-based)
    merged,               \* the document under construction
    section_prompt,       \* section_prompt / section_user of the iteration
    section_retry_count,
    response,             \* the provider response the code still reads
    sections_generated,
    sections_expected,
    llm_calls,
    total_retries,
    deviants,             \* sections whose first response was not the nominal one
    calls,                \* provider calls issued so far, in order
    log,                  \* log records emitted so far, in order
    outcome,              \* how the request ended and with what value
    rfp_text,             \* rfp_text argument of extract_requirements: its lines
    aggregated,           \* the per-section aggregate of extract_requirements
    rfp_summary,          \* rfp_summary argument of retrieve_similar_projects
    store,                \* the chunks of the vector index, best match first
    results,              \* results of the retriever, as _format_results reads them
    accesses,             \* uses of the embedding provider and the index, in order
    user_prompt,          \* user_prompt argument of BedrockClient.generate
    attempt,              \* attempt counter of the retry loop of generate
    replies,              \* what the provider answered to each converse call, in order
    sleeps,               \* the delays generate slept, in tenths of a second
    object_text,          \* the JSON object text a parser input was built around
    wrapping,             \* how the parser input wraps the object text
    project_text,         \* project_text argument of ingest_project_text
    metadata,             \* metadata argument of ingest_project_text ("None" for a key it lacks)
    doc_id,               \* id of the document under ingestion
    runs,                 \* calls of ingest_project_text begun so far
    merge_payload,        \* section_payload argument of _merge_section (None for a value that is no dict)
    frames,               \* the local variables of each of the requests that run concurrently
    session_store,        \* rfp_router.session_store: session id -> entry
    sessions_dir,         \* the files of SESSIONS_DIR: session id -> file content
    now,                  \* time.time(), in seconds
    follow_up,            \* the payload argument of the last follow_up request
    invoked               \* the functions the last request called, in order, the handler first

vars == <<kind, pc, requirements, document_type, retrieved, sections, activities,
          sec_idx, merged, section_prompt, section_retry_count, response,
          sections_generated,
          sections_expected, llm_calls, total_retries, deviants, calls, log,
          outcome, rfp_text, aggregated, rfp_summary, store, results, accesses,
          user_prompt, attempt, replies, sleeps,
          object_text,
          wrapping,
          project_text, metadata, doc_id, runs,
          merge_payload,
          frames,
          session_store, sessions_dir, now, follow_up, invoked>>

\* what the generation stages leave alone
OtherVars == <<rfp_text, aggregated, rfp_summary, store, results, accesses,
          user_prompt, attempt, replies, sleeps,
          object_text,
          wrapping,
          project_text, metadata, doc_id, runs,
          merge_payload,
          frames,
          session_store, sessions_dir, now, follow_up, invoked>>

-----------------------------------------------------------------------------
(* Program constants *)

SOW_TOP_K == 12
MAX_SECTIONS == 10
TOP_K == 5

(* Bounds of the model *)

\* responses of one statement-of-work request that may deviate: a first
\* response to a section other than the nominal one (the object holding
\* exactly that section), a retry response other than the nominal one or
\* plain prose
MaxDeviant == 2

\* lines of the text given to extract_requirements
MaxLines == 5

\* hits the retriever hands to _format_results (at most TOP_K)
MaxHits == 4

\* chunks of the vector index
MaxChunks == 3

\* calls of ingest_project_text in a row
MaxIngestions == 2

-----------------------------------------------------------------------------
(* Tokens and JSON values *)

Tick == <<"tick">>
JsonWord == <<"json">>
LBrace == <<"{">>
RBrace == <<"}">>
Comma == <<",">>
Ws == <<" ">>
Prose == <<"w">>
Member(k, v) == <<"m", k, v>>

IsMember(tok) == tok[1] = "m"

StrVal(id) == [t |-> "string", m |-> "", items |-> <<>>, id |-> id]
NumVal(id) == [t |-> "number", m |-> "", items |-> <<>>, id |-> id]
ListVal(items) == [t |-> "list", m |-> "", items |-> items, id |-> 0]
ObjVal(model, id) == [t |-> "object", m |-> model, items |-> <<>>, id |-> id]
NullVal == [t |-> "null", m |-> "", items |-> <<>>, id |-> 0]

EmptyDict == [k \in {} |-> NullVal]

\* Optional[dict]: None, or a dict
None == [some |-> FALSE, obj |-> EmptyDict]
Some(d) == [some |-> TRUE, obj |-> d]

\* dict.get(key) with the default None
DictGet(d, k) == IF k \in DOMAIN d THEN d[k] ELSE NullVal

-----------------------------------------------------------------------------
(* Response parser: sow_service._strip_json_fences / _safe_parse_json      *)

RECURSIVE LStrip(_, _)
LStrip(s, tok) ==
    IF s # <<>> /\ Head(s) = tok THEN LStrip(Tail(s), tok) ELSE s

RECURSIVE RStrip(_, _)
RStrip(s, tok) ==
    IF s # <<>> /\ s[Len(s)] = tok
    THEN RStrip(SubSeq(s, 1, Len(s) - 1), tok)
    ELSE s

\* str.strip() and str.strip(backtick)
StripTok(s, tok) == RStrip(LStrip(s, tok), tok)

StartsWithFence(s) ==
    Len(s) >= 3 /\ s[1] = Tick /\ s[2] = Tick /\ s[3] = Tick

\* the word json occurs in a token: the bare word, or a member whose key is it
HoldsJson(tok) == tok = JsonWord \/ (IsMember(tok) /\ tok[2] = "json")

\* str.replace("json", "", 1): the first occurrence only, wherever it is
ReplaceFirstJson(s) ==
    LET hits == {i \in 1..Len(s) : HoldsJson(s[i])}
    IN  IF hits = {} THEN s
        ELSE LET i == CHOOSE j \in hits : \A h \in hits : j <= h
             IN  IF s[i] = JsonWord
                 THEN SubSeq(s, 1, i - 1) \o SubSeq(s, i + 1, Len(s))
                 ELSE [s EXCEPT ![i] = Member("", s[i][3])]

\* str.find("{") and str.rfind("}"), 0 for -1 (positions are 1-based)
FindLBrace(s) ==
    LET hits == {i \in 1..Len(s) : s[i] = LBrace}
    IN  IF hits = {} THEN 0 ELSE CHOOSE j \in hits : \A h \in hits : j <= h

RFindRBrace(s) ==
    LET hits == {i \in 1..Len(s) : s[i] = RBrace}
    IN  IF hits = {} THEN 0 ELSE CHOOSE j \in hits : \A h \in hits : j >= h

\* Optional[str]: [some, text]
NoText == [some |-> FALSE, text |-> <<>>]

StripJsonFences(text) ==
    IF text = <<>> THEN NoText
    ELSE LET stripped0 == StripTok(text, Ws)
             stripped == IF StartsWithFence(stripped0)
                         THEN StripTok(ReplaceFirstJson(StripTok(stripped0, Tick)), Ws)
                         ELSE stripped0
             start == FindLBrace(stripped)
             end == RFindRBrace(stripped)
         IN  IF start = 0 \/ end = 0 \/ end <= start THEN NoText
             ELSE [some |-> TRUE, text |-> SubSeq(stripped, start, end)]

\* drop the white space json.loads skips between tokens
RECURSIVE DropWs(_)
DropWs(s) ==
    IF s = <<>> THEN <<>>
    ELSE IF Head(s) = Ws THEN DropWs(Tail(s))
    ELSE <<Head(s)>> \o DropWs(Tail(s))

\* json.loads on a text that starts with { and ends with }: an object of
\* members separated by commas, a later member of the same key winning;
\* anything else is a JSONDecodeError (None here)
JsonLoads(text) ==
    LET inner == DropWs(SubSeq(text, 2, Len(text) - 1))
        n == Len(inner)
        wellFormed ==
            \/ n = 0
            \/ /\ n % 2 = 1
               /\ \A i \in 1..n : IF i % 2 = 1 THEN IsMember(inner[i])
                                               ELSE inner[i] = Comma
        keys == {inner[i][2] : i \in {j \in 1..n : j % 2 = 1}}
        last(k) == CHOOSE i \in 1..n :
                      /\ i % 2 = 1 /\ inner[i][2] = k
                      /\ \A j \in 1..n : (j % 2 = 1 /\ inner[j][2] = k) => j <= i
    IN  IF wellFormed THEN Some([k \in keys |-> inner[last(k)][3]]) ELSE None

SafeParseJson(text) ==
    LET cleaned == StripJsonFences(text)
    IN  IF ~cleaned.some THEN None ELSE JsonLoads(cleaned.text)

-----------------------------------------------------------------------------
(* The statement-of-work document: sow_service._empty_sow_document and     *)
(* the schema of sow_schema.py                                             *)

\* the keys of the document template, in template order
TemplateKeys ==
    << "title", "date", "version", "provider", "client",
       "executive_summary", "confidentiality", "business_value",
       "definitions", "scope_of_services", "service_delivery",
       "resource_profiles", "fees", "expenses", "change_management",
       "acceptance_and_approvals" >>

TemplateKeySet == {TemplateKeys[i] : i \in 1..Len(TemplateKeys)}

\* the fields of Document typed str; every other field is a nested model
StringKeys == {"title", "date", "version", "provider", "client"}

\* the value the skeleton gives a key: "" or the nested object of empty fields
DefaultValue(k) == IF k \in StringKeys THEN StrVal(0) ELSE ObjVal(k, 0)

\* a dict in insertion order: a sequence of <<key, value>>
DocKeys(doc) == [i \in 1..Len(doc) |-> doc[i][1]]
DocHas(doc, k) == \E i \in 1..Len(doc) : doc[i][1] = k
DocGet(doc, k) == doc[CHOOSE i \in 1..Len(doc) : doc[i][1] = k][2]

\* the "document" value of _empty_sow_document()
EmptySowDocument ==
    [i \in 1..Len(TemplateKeys) |-> <<TemplateKeys[i], DefaultValue(TemplateKeys[i])>>]

\* a value a function returns: None, {"document": document}, or a dict as parsed
NoValue == [shape |-> "none", document |-> <<>>, obj |-> EmptyDict]
SowValue(doc) == [shape |-> "sow", document |-> doc, obj |-> EmptyDict]
DictValue(d) == [shape |-> "dict", document |-> <<>>, obj |-> d]

\* a field of Document accepts the value: a str field a string, a nested model
\* an object with exactly the fields of that model (extra="forbid")
FieldAccepts(k, v) ==
    IF k \in StringKeys THEN v.t = "string" ELSE v.t = "object" /\ v.m = k

\* SOWSchema accepts the value: a "document" with exactly the template keys,
\* each of its type
SchemaValid(value) ==
    \/ /\ value.shape = "sow"
       /\ Len(value.document) = Len(TemplateKeys)
       /\ {value.document[i][1] : i \in 1..Len(value.document)} = TemplateKeySet
       /\ \A i \in 1..Len(value.document) :
              FieldAccepts(value.document[i][1], value.document[i][2])
    \/ /\ value.shape = "dict"
       /\ DOMAIN value.obj = {"document"}
       /\ value.obj["document"].t = "object"
       /\ value.obj["document"].m = "document"

\* a merge that also adds the keys the document does not have
MergeSectionAdding(doc, payload) ==
    LET extra == {k \in DOMAIN payload : ~\E i \in 1..Len(doc) : doc[i][1] = k}
        RECURSIVE added(_)
        added(ks) == IF ks = {} THEN <<>>
                     ELSE LET k == CHOOSE x \in ks : TRUE
                          IN  <<<<k, payload[k]>>>> \o added(ks \ {k})
    IN  [i \in 1..Len(doc) |->
            IF doc[i][1] \in DOMAIN payload
            THEN <<doc[i][1], payload[doc[i][1]]>>
            ELSE doc[i]] \o added(extra)

\* a merge that moves the keys it writes to the end of the document
MergeSectionMoving(doc, payload) ==
    SelectSeq(doc, LAMBDA e : e[1] \notin DOMAIN payload)
        \o [i \in 1..Len(SelectSeq(doc, LAMBDA e : e[1] \in DOMAIN payload)) |->
              LET e == SelectSeq(doc, LAMBDA x : x[1] \in DOMAIN payload)[i]
              IN  <<e[1], payload[e[1]]>>]

\* sow_service._merge_section: every key of the payload that the document
\* has is overwritten in place; the others are ignored
MergeSection(doc, payload) ==
    [i \in 1..Len(doc) |->
        IF doc[i][1] \in DOMAIN payload
        THEN <<doc[i][1], payload[doc[i][1]]>>
        ELSE doc[i]]

\* sow_service._default_sections
DefaultSections == TemplateKeys

\* sow_service._validate_sow_dict: any dict is returned as it is
ValidateSowDict(payload) ==
    IF payload.shape \in {"sow", "dict"} THEN payload
    ELSE SowValue(EmptySowDocument)

\* sow_service._repair_json: closes the braces left open.  A member token
\* holds its strings whole, so the scan is never inside a string here.
RECURSIVE OpenBraces(_, _)
OpenBraces(s, depth) ==
    IF s = <<>> THEN depth
    ELSE IF Head(s) = LBrace THEN OpenBraces(Tail(s), depth + 1)
    ELSE IF Head(s) = RBrace /\ depth > 0 THEN OpenBraces(Tail(s), depth - 1)
    ELSE OpenBraces(Tail(s), depth)

RepairJson(text) ==
    IF text = <<>> THEN NoText
    ELSE LET stripped == StripTok(text, Ws)
             start == FindLBrace(stripped)
         IN  IF start = 0 THEN NoText
             ELSE LET segment == SubSeq(stripped, start, Len(stripped))
                  IN  [some |-> TRUE,
                       text |-> segment \o [i \in 1..OpenBraces(segment, 0) |-> RBrace]]

\* sow_service._validate_sow_json: the parsed text as it is, else the skeleton
ValidateSowJson(text) ==
    LET cleaned == StripJsonFences(text)
        parsed == SafeParseJson(cleaned.text)
        repaired == RepairJson(cleaned.text)
        reparsed == SafeParseJson(repaired.text)
    IN  IF cleaned.some /\ parsed.some THEN DictValue(parsed.obj)
        ELSE IF cleaned.some /\ repaired.some /\ reparsed.some
             THEN DictValue(reparsed.obj)
        ELSE SowValue(EmptySowDocument)

-----------------------------------------------------------------------------
(* Structured requirements and the retrieval query built from them         *)

ReqKeyOrder ==
    << "functional_requirements", "non_functional_requirements", "constraints",
       "compliance_items", "assumptions" >>

ReqKeys == {ReqKeyOrder[i] : i \in 1..Len(ReqKeyOrder)}

\* the argument: None, or a dict from (some of) the keys to lists of strings
ReqNone == [none |-> TRUE, d |-> [k \in {} |-> <<>>]]
ReqDict(d) == [none |-> FALSE, d |-> d]

\* requirements with two functional requirements and one constraint
ReqFilled ==
    ReqDict([k \in ReqKeys |->
                IF k = "functional_requirements" THEN <<"r1", "r2">>
                ELSE IF k = "constraints" THEN <<"c1">> ELSE <<>>])

RequirementInputs ==
    { ReqNone,
      ReqDict([k \in {} |-> <<>>]),
      ReqDict([k \in ReqKeys |-> <<>>]),
      ReqFilled,
      ReqDict([k \in {"assumptions"} |-> <<"a1">>]) }

\* Python truth of the argument: None and {} are false
Truthy(req) == ~req.none /\ DOMAIN req.d # {}

\* _summarize_requirements: one "key: item; item" part for every key, in
\* order, whose list is not empty; the query is empty when no part is
SummarizeRequirements(req) ==
    LET present == SelectSeq(ReqKeyOrder,
                             LAMBDA k : k \in DOMAIN req.d /\ req.d[k] # <<>>)
    IN  [i \in 1..Len(present) |-> <<present[i], req.d[present[i]]>>]

-----------------------------------------------------------------------------
(* Prompts, provider calls, log records, outcomes                          *)

\* a prompt pair: the system text is fixed by the prompt function and the
\* section it names; the user text also holds the activities, the
\* CONTEXT_STATUS line and the text appended to it
Prompt(fn, section, acts, status, tail) ==
    [system |-> <<fn, section>>,
     user |-> [fn |-> fn, section |-> section, activities |-> acts,
               status |-> status, tail |-> tail]]

NoPrompt == Prompt("", "", <<>>, "", "")

ContextStatus(found) == IF found = <<>> THEN "none" ELSE "available"

\* prompts.get_sow_index_prompt plus the lines appended at sow_service.py:53
SowIndexPrompt(found) ==
    Prompt("sow_index", "", <<>>, ContextStatus(found), "conflicts")

\* prompts.get_sow_section_prompt plus the lines appended at sow_service.py:95
SowSectionPrompt(name, acts, found) ==
    Prompt("sow_section", name, acts, ContextStatus(found), "conflicts")

\* prompts.get_sow_prompt plus the sentence appended at sow_service.py:208
SowCorrectionPrompt ==
    Prompt("sow", "", <<>>, "", "schema")

\* one client.generate call: the source line that issues it, the loop
\* position it belongs to (0 outside the loop), its prompt, and what came
\* back: "raised", or a text that "parsed" or was "unparseable"
Call(site, idx, prompt, result) ==
    [site |-> site, idx |-> idx, prompt |-> prompt, result |-> result]

ParseResult(parsed) == IF parsed.some THEN "parsed" ELSE "unparseable"

LogRec(event, name, n) == <<event, name, n>>

Running == [status |-> "running", exc |-> "", msg |-> "", value |-> NoValue]
Returned(v) == [status |-> "returned", exc |-> "", msg |-> "", value |-> v]
Raised(exc, msg) == [status |-> "raised", exc |-> exc, msg |-> msg, value |-> NoValue]

-----------------------------------------------------------------------------
(* What the text-generation provider may answer                            *)

\* the value a well-behaved answer gives a section
GoodValue(name, id) == IF name \in StringKeys THEN StrVal(id) ELSE ObjVal(name, id)

\* the nominal answer to a section call: the object holding that section
NominalText(name, id) == <<LBrace, Member(name, GoodValue(name, id)), RBrace>>

\* prose without any object
ProseText == <<Prose, Ws, Prose>>

SectionTexts(name, id) ==
    { NominalText(name, id),
      ProseText,
      \* the nominal object inside a json code fence
      <<Tick, Tick, Tick, JsonWord, Ws>> \o NominalText(name, id)
          \o <<Ws, Tick, Tick, Tick>>,
      \* the section with a value of the wrong type, after some prose
      <<Prose, Ws, LBrace, Member(name, NumVal(id)), RBrace>>,
      \* another section's key and a key the document does not have
      <<LBrace, Member("confidentiality", ObjVal("confidentiality", id)), Comma,
        Ws, Member("notes", StrVal(id)), RBrace>> }

\* a list of section names longer than MAX_SECTIONS by one
LongSections ==
    << "acceptance_and_approvals", "change_management", "expenses", "fees",
       "resource_profiles", "service_delivery", "scope_of_services",
       "definitions", "business_value", "confidentiality",
       "executive_summary" >>

IndexTexts ==
    { \* prose without any object
      <<Prose>>,
      \* the empty object
      <<LBrace, RBrace>>,
      \* "sections" that is no list
      <<LBrace, Member("sections", StrVal(1)), RBrace>>,
      \* "sections" that is the empty list
      <<LBrace, Member("sections", ListVal(<<>>)), RBrace>>,
      \* two sections against the template order, inside a code fence
      <<Tick, Tick, Tick, JsonWord, Ws, LBrace,
        Member("sections", ListVal(<<"fees", "title">>)), Comma,
        Member("activities", ListVal(<<"Phase 1">>)), RBrace, Ws,
        Tick, Tick, Tick>>,
      \* a section named twice and a name the template does not have
      <<LBrace, Member("sections", ListVal(<<"title", "appendix", "title">>)),
        Comma, Member("activities", StrVal(1)), RBrace>>,
      \* more sections than MAX_SECTIONS, between two words of prose
      <<Prose, LBrace, Member("sections", ListVal(LongSections)), RBrace, Prose>> }

-----------------------------------------------------------------------------
(* generate_statement_of_work from the construction of the client on       *)
(* (sow_service.py:47-240)                                                 *)

SowFrame == UNCHANGED <<kind, requirements, document_type, retrieved, OtherVars>>

\* line 47: BedrockClient() raises when no bearer token is configured
SowClient ==
    /\ kind = "sow" /\ pc = "client"
    /\ \/ /\ pc' = "index_call"
          /\ llm_calls' = 0
          /\ outcome' = outcome
       \/ /\ pc' = "done"
          /\ llm_calls' = llm_calls
          /\ outcome' = Raised("RuntimeError", "AWS_BEARER_TOKEN_BEDROCK not configured")
    /\ SowFrame
    /\ UNCHANGED <<sections, activities, sec_idx, merged, section_prompt,
                   section_retry_count, response, sections_generated,
                   sections_expected, total_retries, deviants, calls, log>>

\* a section list that is used whole, however long
SectionsOfUncut(index_data) ==
    LET listed == DictGet(index_data, "sections")
    IN  IF listed.t # "list" \/ listed.items = <<>>
        THEN DefaultSections ELSE listed.items

\* lines 72-80: the sections the loop iterates over
SectionsOf(index_data) ==
    LET listed == DictGet(index_data, "sections")
        chosen == IF listed.t # "list" \/ listed.items = <<>>
                  THEN DefaultSections ELSE listed.items
    IN  IF Len(chosen) > MAX_SECTIONS THEN SubSeq(chosen, 1, MAX_SECTIONS)
        ELSE chosen

\* lines 73, 76-77
ActivitiesOf(index_data) ==
    LET listed == DictGet(index_data, "activities")
    IN  IF listed.t # "list" THEN <<>> ELSE listed.items

\* lines 50-84: the index call, the section list, the skeleton
SowIndexCall ==
    /\ kind = "sow" /\ pc = "index_call"
    /\ \/ /\ calls' = Append(calls, Call(59, 0, SowIndexPrompt(retrieved), "raised"))
          /\ log' = Append(log, LogRec("SOW_INDEX_START", "", 0))
          /\ outcome' = Raised("RuntimeError", "SOW index generation failed")
          /\ pc' = "done"
          /\ UNCHANGED <<sections, activities, sec_idx, merged, response,
                         sections_generated, sections_expected, llm_calls>>
       \/ \E index_response \in IndexTexts :
            LET parsed == SafeParseJson(index_response)
                index_data == IF parsed.some THEN parsed.obj ELSE EmptyDict
            IN  /\ calls' = Append(calls, Call(59, 0, SowIndexPrompt(retrieved),
                                               ParseResult(parsed)))
                /\ response' = index_response
                /\ llm_calls' = llm_calls + 1
                /\ sections' = SectionsOf(index_data)
                /\ activities' = ActivitiesOf(index_data)
                /\ log' = log \o <<LogRec("SOW_INDEX_START", "", 0),
                                   LogRec("SOW_INDEX_END", "", 0)>>
                /\ merged' = EmptySowDocument
                /\ sections_generated' = 0
                /\ sections_expected' = Len(sections')
                /\ sec_idx' = 1
                /\ pc' = "section_call"
                /\ outcome' = outcome
    /\ SowFrame
    /\ UNCHANGED <<section_prompt, section_retry_count, total_retries, deviants>>

\* a retry issued whether or not the response parsed
PayloadMissingAlways(section_payload) == TRUE

\* lines 115 and 133: the response did not parse
PayloadMissing(section_payload) == ~section_payload.some

\* a loop that leaves before its last section
SowAdvanceEarly ==
    IF sec_idx < Len(sections) - 1
    THEN sec_idx' = sec_idx + 1 /\ pc' = "section_call"
    ELSE sec_idx' = sec_idx /\ pc' = "validate"

\* the loop moves to the next section, or leaves for lines 157-240
SowAdvance ==
    IF sec_idx < Len(sections)
    THEN sec_idx' = sec_idx + 1 /\ pc' = "section_call"
    ELSE sec_idx' = sec_idx /\ pc' = "validate"

\* lines 85-115 and 145-155: the first call of a section
SowSectionCall ==
    /\ kind = "sow" /\ pc = "section_call"
    /\ LET name == sections[sec_idx]
           prompt == SowSectionPrompt(name, activities, retrieved)
           start == LogRec("SOW_SECTION_START", name, 0)
       IN  /\ section_prompt' = prompt
           /\ response' = <<>>
           /\ \/ /\ calls' = Append(calls, Call(103, sec_idx, prompt, "raised"))
                 /\ log' = Append(log, start)
                 /\ outcome' = Raised("RuntimeError", "SOW section generation failed")
                 /\ pc' = "done"
                 /\ section_retry_count' = 0
                 /\ UNCHANGED <<sec_idx, merged, sections_generated, llm_calls, deviants>>
              \/ \E section_response \in SectionTexts(name, llm_calls + 1) :
                   LET section_payload == SafeParseJson(section_response)
                       nominal == section_response = NominalText(name, llm_calls + 1)
                   IN  /\ nominal \/ deviants < MaxDeviant
                       /\ deviants' = IF nominal THEN deviants ELSE deviants + 1
                       /\ calls' = Append(calls, Call(103, sec_idx, prompt,
                                                      ParseResult(section_payload)))
                       /\ llm_calls' = llm_calls + 1
                       /\ outcome' = outcome
                       /\ IF PayloadMissing(section_payload)
                          THEN /\ section_retry_count' = 1
                               /\ log' = log \o <<start, LogRec("SOW_SECTION_CALL", name, 0)>>
                               /\ pc' = "section_retry"
                               /\ UNCHANGED <<sec_idx, merged, sections_generated>>
                          ELSE /\ section_retry_count' = 0
                               /\ merged' = MergeSection(merged, section_payload.obj)
                               /\ sections_generated' = sections_generated + 1
                               /\ log' = log \o <<start, LogRec("SOW_SECTION_CALL", name, 0),
                                                  LogRec("SOW_SECTION_END", name, 1)>>
                               /\ SowAdvance
    /\ SowFrame
    /\ UNCHANGED <<sections, activities, sections_expected, total_retries>>

\* lines 116-155: the retry of a section whose first response did not parse
SowSectionRetry ==
    /\ kind = "sow" /\ pc = "section_retry"
    /\ LET name == sections[sec_idx]
       IN  \/ /\ calls' = Append(calls, Call(120, sec_idx, section_prompt, "raised"))
              /\ outcome' = Raised("RuntimeError", "SOW section generation failed")
              /\ pc' = "done"
              /\ UNCHANGED <<sec_idx, merged, sections_generated, llm_calls,
                             total_retries, log, deviants>>
           \/ \E section_response \in SectionTexts(name, llm_calls + 1) :
                LET section_payload == SafeParseJson(section_response)
                    plain == section_response \in {NominalText(name, llm_calls + 1),
                                                   ProseText}
                IN  /\ plain \/ deviants < MaxDeviant
                    /\ deviants' = IF plain THEN deviants ELSE deviants + 1
                    /\ calls' = Append(calls, Call(120, sec_idx, section_prompt,
                                                   ParseResult(section_payload)))
                    /\ llm_calls' = llm_calls + 1
                    /\ total_retries' = total_retries + 1
                    /\ outcome' = outcome
                    /\ IF PayloadMissing(section_payload)
                       THEN /\ log' = log \o <<LogRec("SOW_SECTION_CALL", name, 1),
                                               LogRec("SOW_SECTION_END", name, 0)>>
                            /\ UNCHANGED <<merged, sections_generated>>
                       ELSE /\ merged' = MergeSection(merged, section_payload.obj)
                            /\ sections_generated' = sections_generated + 1
                            /\ log' = log \o <<LogRec("SOW_SECTION_CALL", name, 1),
                                               LogRec("SOW_SECTION_END", name, 1)>>
                    /\ SowAdvance
    /\ SowFrame
    /\ UNCHANGED <<sections, activities, sections_expected, section_prompt,
                   section_retry_count, response>>

\* lines 157-240: validation of the merged document; the correction call and
\* the validation of its response when _validate_sow_dict returns None
SowValidate ==
    /\ kind = "sow" /\ pc = "validate"
    /\ LET validated == ValidateSowDict(SowValue(merged))
           head == log \o <<LogRec("SOW_MERGE_END", "", sections_expected - sections_generated),
                            LogRec("SOW_VALIDATION_START", "", 0)>>
       IN  IF validated # NoValue
           THEN /\ outcome' = Returned(validated)
                /\ log' = head \o <<LogRec("SOW_VALIDATION_END", "", 1),
                                    LogRec("SOW_TOTAL", "", llm_calls)>>
                /\ UNCHANGED <<calls, llm_calls, total_retries>>
           ELSE \E answer \in {<<>>} \cup IndexTexts :
                  IF answer = <<>>
                  THEN /\ calls' = Append(calls, Call(214, 0, SowCorrectionPrompt, "raised"))
                       /\ outcome' = Raised("RuntimeError", "SOW correction generation failed")
                       /\ log' = head
                       /\ UNCHANGED <<llm_calls, total_retries>>
                  ELSE /\ calls' = Append(calls, Call(214, 0, SowCorrectionPrompt,
                                                      ParseResult(SafeParseJson(answer))))
                       /\ llm_calls' = llm_calls + 1
                       /\ total_retries' = total_retries + 1
                       /\ outcome' = Returned(ValidateSowJson(answer))
                       /\ log' = head \o <<LogRec("SOW_CORRECTION_CALL", "", 1),
                                           LogRec("SOW_VALIDATION_END", "", 1),
                                           LogRec("SOW_TOTAL", "", llm_calls + 1)>>
    /\ pc' = "done"
    /\ SowFrame
    /\ UNCHANGED <<sections, activities, sec_idx, merged, section_prompt,
                   section_retry_count, response, sections_generated,
                   sections_expected, deviants>>

\* the request at sow_service.py:47: the requirements passed the check of
\* line 22 and the retrieval of lines 28-46 returned, with or without matches
InitAssembler ==
    /\ kind = "sow"
    /\ pc = "client"
    /\ requirements = ReqFilled
    /\ document_type = ""
    /\ retrieved \in {<<>>, <<"Project A">>}
    /\ sections = <<>>
    /\ activities = <<>>
    /\ sec_idx = 0
    /\ merged = <<>>
    /\ section_prompt = NoPrompt
    /\ section_retry_count = 0
    /\ response = <<>>
    /\ sections_generated = 0
    /\ sections_expected = 0
    /\ llm_calls = 0
    /\ total_retries = 0
    /\ deviants = 0
    /\ calls = <<>>
    /\ log = <<LogRec("SOW_RETRIEVAL_START", "", 0), LogRec("SOW_RETRIEVAL_END", "", Len(retrieved))>>
    /\ outcome = Running
    /\ rfp_text = <<>>
    /\ aggregated = <<>>
    /\ rfp_summary = ""
    /\ store = <<>>
    /\ results = <<>>
    /\ accesses = <<>>
    /\ user_prompt = ""
    /\ attempt = 0
    /\ replies = <<>>
    /\ sleeps = <<>>
    /\ object_text = <<>>
    /\ wrapping = ""
    /\ project_text = ""
    /\ metadata = [document_type |-> "None", project_name |-> "None"]
    /\ doc_id = ""
    /\ runs = 0
    /\ merge_payload = None
    /\ frames = <<>>
    /\ session_store = <<>>
    /\ sessions_dir = <<>>
    /\ now = 0
    /\ follow_up = [session_id |-> "", given |-> FALSE, words |-> {}]
    /\ invoked = <<>>

NextAssembler ==
    \/ SowClient
    \/ SowIndexCall
    \/ SowSectionCall
    \/ SowSectionRetry
    \/ SowValidate

SpecAssembler == InitAssembler /\ [][NextAssembler]_vars

-----------------------------------------------------------------------------
(* The retrieval engine as its callers see it                              *)

\* the parameters of retrieve_similar_projects (retrieval_service.py:23-26)
RetrieveParams == {"rfp_summary", "document_type"}

\* a Python call binds: every keyword it passes is a parameter of the callee
CallBinds(params, keywords) == keywords \subseteq params

\* what a retrieval with a query that is not empty may end in: the results
\* (none, or one project), the empty index, or a failure of the embedding
\* provider or of the index
RetrievedLists == {<<>>, <<"Project A">>}

RetrievalEndings ==
    {[exc |-> "", found |-> r] : r \in RetrievedLists}
        \cup {[exc |-> "VectorStoreEmptyError", found |-> <<>>],
              [exc |-> "RuntimeError", found |-> <<>>]}

RetrievalMessage(exc) ==
    IF exc = "VectorStoreEmptyError"
    THEN "Vector store is empty. Ingest documents before querying."
    ELSE "Failed to retrieve similar projects"

-----------------------------------------------------------------------------
(* Requests as the program runs them                                       *)

Kinds == {"sow", "estimation", "invoke"}

DocumentTypes == {"", "estimation"}

\* prompts.get_estimation_prompt
EstimationPrompt == Prompt("estimation", "", <<>>, "", "")

\* prompts.get_extraction_prompt for one section, prompts.get_refinement_prompt
ExtractionPrompt(title) == Prompt("extraction", title, <<>>, "", "")
RefinementPrompt == Prompt("refinement", "", <<>>, "", "")

\* the correction call of the stage drivers: the same system prompt, the
\* fixed correction text as the user prompt
CorrectionOf(prompt) ==
    [system |-> prompt.system,
     user |-> [fn |-> "correction", section |-> "", activities |-> <<>>,
               status |-> "", tail |-> ""]]

\* what the provider may answer a stage driver
DriverTexts(id) ==
    { <<LBrace, Member("timeline_months", NumVal(id)), RBrace>>,
      <<Prose, Ws, Prose>>,
      <<Tick, Tick, Tick, JsonWord, Ws, LBrace,
        Member("assumptions", ListVal(<<"a1">>)), RBrace, Ws, Tick, Tick, Tick>>,
      <<Prose, LBrace, Member("team_composition", ListVal(<<"Architect">>)),
        Comma, Member("timeline_months", NumVal(id)), RBrace, Prose>>,
      <<LBrace, Member("timeline_months", NumVal(id)), Prose, RBrace>>,
      <<RBrace, Prose, LBrace>>,
      <<LBrace, RBrace>> }

InvokePrompts == {ExtractionPrompt("Introduction"), ExtractionPrompt("SCOPE"),
                  RefinementPrompt}

Idle ==
    /\ kind = "none"
    /\ pc = "idle"
    /\ requirements = ReqNone
    /\ document_type = ""
    /\ retrieved = <<>>
    /\ sections = <<>>
    /\ activities = <<>>
    /\ sec_idx = 0
    /\ merged = <<>>
    /\ section_prompt = NoPrompt
    /\ section_retry_count = 0
    /\ response = <<>>
    /\ sections_generated = 0
    /\ sections_expected = 0
    /\ llm_calls = 0
    /\ total_retries = 0
    /\ deviants = 0
    /\ calls = <<>>
    /\ log = <<>>
    /\ outcome = Running
    /\ rfp_text = <<>>
    /\ aggregated = <<>>
    /\ rfp_summary = ""
    /\ store = <<>>
    /\ results = <<>>
    /\ accesses = <<>>
    /\ user_prompt = ""
    /\ attempt = 0
    /\ replies = <<>>
    /\ sleeps = <<>>
    /\ object_text = <<>>
    /\ wrapping = ""
    /\ project_text = ""
    /\ metadata = [document_type |-> "None", project_name |-> "None"]
    /\ doc_id = ""
    /\ runs = 0
    /\ merge_payload = None
    /\ frames = <<>>
    /\ session_store = <<>>
    /\ sessions_dir = <<>>
    /\ now = 0
    /\ follow_up = [session_id |-> "", given |-> FALSE, words |-> {}]
    /\ invoked = <<>>

RequestFrame ==
    UNCHANGED <<kind, requirements, document_type, sections, activities, sec_idx,
                merged, section_retry_count, sections_generated, sections_expected,
                total_retries, deviants, OtherVars>>

\* a caller invokes generate_statement_of_work or generate_estimation with
\* its arguments, or _invoke_with_retry with its prompts
Start ==
    /\ pc = "idle"
    /\ \/ /\ kind' \in {"sow", "estimation"}
          /\ requirements' \in RequirementInputs
          /\ document_type' \in IF kind' = "sow" THEN {""} ELSE DocumentTypes
          /\ section_prompt' = section_prompt
       \/ /\ kind' = "invoke"
          /\ section_prompt' \in InvokePrompts
          /\ UNCHANGED <<requirements, document_type>>
    /\ pc' = "entry"
    /\ UNCHANGED <<retrieved, sections, activities, sec_idx, merged,
                   section_retry_count, response, sections_generated,
                   sections_expected, llm_calls, total_retries, deviants, calls,
                   log, outcome, OtherVars>>

\* sow_service.py:21-46: the check of the argument, the query, and the call
\* retrieve_similar_projects(query_text, document_type=None, top_k=SOW_TOP_K)
SowEntry ==
    /\ kind = "sow" /\ pc = "entry"
    /\ IF ~Truthy(requirements)
       THEN /\ outcome' = Raised("ValueError", "structured_requirements must be provided")
            /\ pc' = "done"
            /\ UNCHANGED <<retrieved, log>>
       ELSE LET query_text == SummarizeRequirements(requirements)
                started == Append(log, LogRec("SOW_RETRIEVAL_START", "", 0))
            IN  IF ~CallBinds(RetrieveParams, {"rfp_summary", "document_type", "top_k"})
                THEN /\ outcome' = Raised("TypeError", "unexpected keyword argument top_k")
                     /\ pc' = "done"
                     /\ log' = started
                     /\ retrieved' = retrieved
                ELSE IF query_text = <<>>
                THEN /\ outcome' = Raised("ValueError", "Query cannot be empty")
                     /\ pc' = "done"
                     /\ log' = started
                     /\ retrieved' = retrieved
                ELSE \E ending \in RetrievalEndings :
                       IF ending.exc # ""
                       THEN /\ outcome' = Raised(ending.exc, RetrievalMessage(ending.exc))
                            /\ pc' = "done"
                            /\ log' = started
                            /\ retrieved' = retrieved
                       ELSE /\ outcome' = outcome
                            /\ pc' = "client"
                            /\ retrieved' = ending.found
                            /\ log' = Append(started, LogRec("SOW_RETRIEVAL_END", "",
                                                             Len(ending.found)))
    /\ RequestFrame
    /\ UNCHANGED <<section_prompt, response, llm_calls, calls>>

\* estimation_service.py:18-33: the check of the argument, the query, and
\* the call retrieve_similar_projects(query_text, document_type=document_type)
EstEntry ==
    /\ kind = "estimation" /\ pc = "entry"
    /\ IF ~Truthy(requirements)
       THEN /\ outcome' = Raised("ValueError", "structured_requirements must be provided")
            /\ pc' = "done"
            /\ UNCHANGED <<retrieved, log>>
       ELSE LET query_text == SummarizeRequirements(requirements)
            IN  IF ~CallBinds(RetrieveParams, {"rfp_summary", "document_type"})
                THEN /\ outcome' = Raised("TypeError", "unexpected keyword argument")
                     /\ pc' = "done"
                     /\ UNCHANGED <<retrieved, log>>
                ELSE IF query_text = <<>>
                THEN /\ outcome' = Raised("ValueError", "Query cannot be empty")
                     /\ pc' = "done"
                     /\ UNCHANGED <<retrieved, log>>
                ELSE \E ending \in RetrievalEndings :
                       IF ending.exc # ""
                       THEN /\ outcome' = Raised(ending.exc, RetrievalMessage(ending.exc))
                            /\ pc' = "done"
                            /\ UNCHANGED <<retrieved, log>>
                       ELSE /\ outcome' = outcome
                            /\ pc' = "client"
                            /\ retrieved' = ending.found
                            /\ log' = Append(log, LogRec("Estimation LLM context", "",
                                                         Len(ending.found)))
    /\ RequestFrame
    /\ UNCHANGED <<section_prompt, response, llm_calls, calls>>

\* estimation_service.py:34: BedrockClient() raises when no bearer token is
\* configured
EstClient ==
    /\ kind = "estimation" /\ pc = "client"
    /\ \/ /\ pc' = "call"
          /\ outcome' = outcome
       \/ /\ pc' = "done"
          /\ outcome' = Raised("RuntimeError", "AWS_BEARER_TOKEN_BEDROCK not configured")
    /\ RequestFrame
    /\ UNCHANGED <<retrieved, section_prompt, response, llm_calls, calls, log>>

\* a stage driver's first call (estimation_service.py:35-39,
\* extraction_service.py:65-68): a provider failure propagates, a response
\* that parses is returned, any other leads to the correction call
DriverCall(site, prompt) ==
    \/ /\ calls' = Append(calls, Call(site, 0, prompt, "raised"))
       /\ outcome' = Raised("RuntimeError", "Bedrock request failed")
       /\ pc' = "done"
       /\ UNCHANGED <<response, log>>
    \/ \E text \in DriverTexts(Len(calls) + 1) :
         LET parsed == SafeParseJson(text)
         IN  /\ calls' = Append(calls, Call(site, 0, prompt, ParseResult(parsed)))
             /\ response' = text
             /\ IF parsed.some
                THEN /\ outcome' = Returned(DictValue(parsed.obj))
                     /\ pc' = "done"
                     /\ log' = log
                ELSE /\ outcome' = outcome
                     /\ pc' = "correction"
                     /\ log' = Append(log, LogRec("Invalid JSON from model, retrying with correction prompt", "", 0))

\* a correction call that returns the empty object when its response does
\* not parse
DriverCorrectionSilent(site, prompt, message) ==
    \/ /\ calls' = Append(calls, Call(site, 0, CorrectionOf(prompt), "raised"))
       /\ outcome' = Raised("RuntimeError", "Bedrock request failed")
       /\ pc' = "done"
       /\ UNCHANGED <<response, log>>
    \/ \E text \in DriverTexts(Len(calls) + 1) :
         LET parsed == SafeParseJson(text)
         IN  /\ calls' = Append(calls, Call(site, 0, CorrectionOf(prompt),
                                            ParseResult(parsed)))
             /\ response' = text
             /\ outcome' = IF parsed.some THEN Returned(DictValue(parsed.obj))
                           ELSE Returned(DictValue(EmptyDict))
             /\ pc' = "done"
             /\ log' = log

\* a correction call that is repeated until its response parses
DriverCorrectionAgain(site, prompt, message) ==
    \/ /\ calls' = Append(calls, Call(site, 0, CorrectionOf(prompt), "raised"))
       /\ outcome' = Raised("RuntimeError", "Bedrock request failed")
       /\ pc' = "done"
       /\ UNCHANGED <<response, log>>
    \/ \E text \in DriverTexts(Len(calls) + 1) :
         LET parsed == SafeParseJson(text)
         IN  /\ calls' = Append(calls, Call(site, 0, CorrectionOf(prompt),
                                            ParseResult(parsed)))
             /\ response' = text
             /\ outcome' = IF parsed.some THEN Returned(DictValue(parsed.obj))
                           ELSE outcome
             /\ pc' = IF parsed.some THEN "done" ELSE "correction"
             /\ log' = log

\* a correction call whose response is not parsed again: the result is
\* what the first response gave
DriverCorrectionStale(site, prompt, message) ==
    \/ /\ calls' = Append(calls, Call(site, 0, CorrectionOf(prompt), "raised"))
       /\ outcome' = Raised("RuntimeError", "Bedrock request failed")
       /\ pc' = "done"
       /\ UNCHANGED <<response, log>>
    \/ \E text \in DriverTexts(Len(calls) + 1) :
         LET parsed == SafeParseJson(text)
             stale == SafeParseJson(response)
         IN  /\ calls' = Append(calls, Call(site, 0, CorrectionOf(prompt),
                                            ParseResult(parsed)))
             /\ response' = text
             /\ outcome' = IF stale.some THEN Returned(DictValue(stale.obj))
                           ELSE Raised("ValueError", message)
             /\ pc' = "done"
             /\ log' = log

\* a stage driver's correction call (estimation_service.py:41-51,
\* extraction_service.py:70-81): the response that parses is returned, any
\* other is a ValueError
DriverCorrection(site, prompt, message) ==
    \/ /\ calls' = Append(calls, Call(site, 0, CorrectionOf(prompt), "raised"))
       /\ outcome' = Raised("RuntimeError", "Bedrock request failed")
       /\ pc' = "done"
       /\ UNCHANGED <<response, log>>
    \/ \E text \in DriverTexts(Len(calls) + 1) :
         LET parsed == SafeParseJson(text)
         IN  /\ calls' = Append(calls, Call(site, 0, CorrectionOf(prompt),
                                            ParseResult(parsed)))
             /\ response' = text
             /\ outcome' = IF parsed.some THEN Returned(DictValue(parsed.obj))
                           ELSE Raised("ValueError", message)
             /\ pc' = "done"
             /\ log' = log

EstCall ==
    /\ kind = "estimation" /\ pc = "call"
    /\ DriverCall(36, EstimationPrompt)
    /\ RequestFrame
    /\ UNCHANGED <<retrieved, section_prompt, llm_calls>>

EstCorrection ==
    /\ kind = "estimation" /\ pc = "correction"
    /\ DriverCorrection(47, EstimationPrompt, "LLM returned invalid JSON")
    /\ RequestFrame
    /\ UNCHANGED <<retrieved, section_prompt, llm_calls>>

\* extraction_service._invoke_with_retry, with the prompts it was given
InvokeCall ==
    /\ kind = "invoke" /\ pc = "entry"
    /\ DriverCall(65, section_prompt)
    /\ RequestFrame
    /\ UNCHANGED <<retrieved, section_prompt, llm_calls>>

InvokeCorrection ==
    /\ kind = "invoke" /\ pc = "correction"
    /\ DriverCorrection(76, section_prompt, "LLM returned invalid JSON after retry")
    /\ RequestFrame
    /\ UNCHANGED <<retrieved, section_prompt, llm_calls>>

Init == Idle

Next ==
    \/ Start
    \/ SowEntry
    \/ EstEntry
    \/ EstClient
    \/ EstCall
    \/ EstCorrection
    \/ InvokeCall
    \/ InvokeCorrection

Spec == Init /\ [][Next]_vars

-----------------------------------------------------------------------------
(* Requirements extraction: extraction_service.extract_requirements        *)

\* the lines of an RFP text: a line of white space, a heading, a heading
\* with white space around it, a line of running text
Lines == {" ", "SCOPE", " TIMELINE ", "text"}

\* str.strip of a line
StripLine(line) ==
    CASE line = " " -> ""
      [] line = " TIMELINE " -> "TIMELINE"
      [] OTHER -> line

\* _HEADING_REGEX.match on a stripped line: upper-case letters, four or more
IsHeading(line) == line \in {"SCOPE", "TIMELINE"}

RfpTexts == UNION {[1..n -> Lines] : n \in 0..MaxLines}

\* _clean_text: every line stripped, the empty ones dropped
CleanText(text) ==
    SelectSeq([i \in 1..Len(text) |-> StripLine(text[i])], LAMBDA l : l # "")

\* the section under way is kept whether it has lines or not
CloseSectionAlways(found, current_title, current_lines) ==
    Append(found, <<current_title, current_lines>>)

\* lines 52-53 and 59-60: the section under way is kept when it has lines
CloseSection(found, current_title, current_lines) ==
    IF current_lines # <<>> THEN Append(found, <<current_title, current_lines>>)
    ELSE found

\* _split_into_sections: a heading line opens a section, any other line
\* belongs to the section under way ("Introduction" before the first heading)
RECURSIVE SplitFrom(_, _, _, _)
SplitFrom(lines, current_title, current_lines, found) ==
    IF lines = <<>> THEN CloseSection(found, current_title, current_lines)
    ELSE IF IsHeading(StripLine(Head(lines)))
    THEN SplitFrom(Tail(lines), StripLine(Head(lines)), <<>>,
                   CloseSection(found, current_title, current_lines))
    ELSE SplitFrom(Tail(lines), current_title, Append(current_lines, Head(lines)),
                   found)

SplitIntoSections(text) == SplitFrom(text, "Introduction", <<>>, <<>>)

\* an item of a JSON list: its JSON type, its text, and a serial number
Item(t, s, id) == [t |-> t, s |-> s, id |-> id]

\* Python truth of an item: None, "", 0 and {} are false
ItemTruthy(item) ==
    ~ \/ item.t = "null"
      \/ item.t = "string" /\ item.s = ""
      \/ item.t = "number" /\ item.s = "0"
      \/ item.t = "object" /\ item.s = "{}"

\* str(value)
StrOf(item) == Item("string", item.s, item.id)

\* _init_requirements
InitRequirements == [k \in ReqKeys |-> <<>>]

\* _merge_requirements: for every key of the target, the items of the
\* payload's list that are true, as strings, appended
MergeRequirements(target, section_data) ==
    [k \in DOMAIN target |->
        LET values == IF k \in DOMAIN section_data THEN section_data[k]
                      ELSE ListVal(<<>>)
            kept == SelectSeq(values.items, ItemTruthy)
        IN  IF values.t = "list"
            THEN target[k] \o [i \in 1..Len(kept) |-> StrOf(kept[i])]
            ELSE target[k]]

\* prompts.get_refinement_prompt(aggregated): the user prompt holds the
\* aggregate
RefinementPromptOf(aggregated_requirements) ==
    [system |-> <<"refinement", "">>,
     user |-> [fn |-> "refinement", aggregated |-> aggregated_requirements]]

\* what the provider may answer an extraction call
ExtractionTexts(id) ==
    { <<LBrace, Member("functional_requirements",
                       ListVal(<<Item("string", "requirement", id)>>)), RBrace>>,
      ProseText,
      \* an empty string, a number and an object as items, a key whose value
      \* is no list, and a key the aggregate does not have
      <<Prose, LBrace,
        Member("constraints", ListVal(<<Item("string", "", id), Item("number", "5", id),
                                        Item("object", "{..}", id)>>)), Comma,
        Member("assumptions", StrVal(id)), Comma,
        Member("notes", ListVal(<<Item("string", "note", id)>>)), RBrace>> }

\* the object with the five keys and the given lists
FiveKeyText(lists) ==
    <<LBrace, Member(ReqKeyOrder[1], ListVal(lists[ReqKeyOrder[1]])), Comma,
      Member(ReqKeyOrder[2], ListVal(lists[ReqKeyOrder[2]])), Comma,
      Member(ReqKeyOrder[3], ListVal(lists[ReqKeyOrder[3]])), Comma,
      Member(ReqKeyOrder[4], ListVal(lists[ReqKeyOrder[4]])), Comma,
      Member(ReqKeyOrder[5], ListVal(lists[ReqKeyOrder[5]])), RBrace>>

\* what the provider may answer a refinement call
RefinementTexts(agg, id) ==
    { \* the aggregate as it is
      FiveKeyText(agg),
      ProseText,
      \* the aggregate and one requirement more
      FiveKeyText([agg EXCEPT !["functional_requirements"] =
                       Append(@, Item("string", "requirement", 0))]),
      \* the empty object
      <<LBrace, RBrace>>,
      \* the aggregate with an object among the compliance items
      FiveKeyText([agg EXCEPT !["compliance_items"] =
                       Append(@, Item("object", "{..}", id))]) }

ExtFrame ==
    UNCHANGED <<kind, requirements, document_type, retrieved, activities, merged,
                section_prompt, section_retry_count, sections_generated,
                sections_expected, llm_calls, total_retries, deviants, rfp_text,
                rfp_summary, store, results, accesses,
                user_prompt, attempt, replies, sleeps,
                object_text,
                wrapping,
                project_text, metadata, doc_id, runs,
                merge_payload,
                frames,
                session_store, sessions_dir, now, follow_up, invoked>>

\* lines 17-26: the check of the argument, the sections, the client, the
\* empty aggregate
ExtEntry ==
    /\ kind = "extract" /\ pc = "entry"
    /\ LET clean_text == CleanText(rfp_text)
           split == SplitIntoSections(clean_text)
       IN  IF clean_text = <<>>
           THEN /\ outcome' = Raised("ValueError", "rfp_text must be a non-empty string")
                /\ pc' = "done"
                /\ UNCHANGED <<sections, sec_idx, aggregated>>
           ELSE \/ /\ outcome' = Raised("RuntimeError",
                                        "AWS_BEARER_TOKEN_BEDROCK not configured")
                   /\ pc' = "done"
                   /\ UNCHANGED <<sections, sec_idx, aggregated>>
                \/ /\ sections' = IF split = <<>> THEN << <<"RFP", clean_text>> >>
                                  ELSE split
                   /\ aggregated' = InitRequirements
                   /\ sec_idx' = 1
                   /\ pc' = "x_call"
                   /\ outcome' = outcome
    /\ ExtFrame
    /\ UNCHANGED <<response, calls, log>>

\* a loop that leaves for the refinement before its last section
ExtAdvanceEarly ==
    IF sec_idx < Len(sections) - 1
    THEN sec_idx' = sec_idx + 1 /\ pc' = "x_call"
    ELSE sec_idx' = sec_idx /\ pc' = "x_refine"

\* lines 28 and 34: the loop moves to the next section, or leaves for the
\* refinement
ExtAdvance ==
    IF sec_idx < Len(sections)
    THEN sec_idx' = sec_idx + 1 /\ pc' = "x_call"
    ELSE sec_idx' = sec_idx /\ pc' = "x_refine"

\* the record of line 29
ExtractingRec == LogRec("Extracting requirements from section", sections[sec_idx][1], 0)

RetryRec == LogRec("Invalid JSON from model, retrying with correction prompt", "", 0)

\* lines 28-32 with lines 65-70: the first call of a section
ExtCall ==
    /\ kind = "extract" /\ pc = "x_call"
    /\ LET prompt == ExtractionPrompt(sections[sec_idx][1])
       IN  \/ /\ calls' = Append(calls, Call(65, sec_idx, prompt, "raised"))
              /\ outcome' = Raised("RuntimeError", "Bedrock request failed")
              /\ pc' = "done"
              /\ log' = Append(log, ExtractingRec)
              /\ UNCHANGED <<response, aggregated, sec_idx>>
           \/ \E text \in ExtractionTexts(Len(calls) + 1) :
                LET parsed == SafeParseJson(text)
                IN  /\ calls' = Append(calls, Call(65, sec_idx, prompt, ParseResult(parsed)))
                    /\ response' = text
                    /\ outcome' = outcome
                    /\ IF parsed.some
                       THEN /\ aggregated' = MergeRequirements(aggregated, parsed.obj)
                            /\ log' = Append(log, ExtractingRec)
                            /\ ExtAdvance
                       ELSE /\ log' = log \o <<ExtractingRec, RetryRec>>
                            /\ pc' = "x_correction"
                            /\ UNCHANGED <<aggregated, sec_idx>>
    /\ ExtFrame
    /\ UNCHANGED sections

\* a correction call whose unparseable response is passed over: the section
\* contributes nothing and the loop goes on
ExtCorrectionLenient ==
    /\ kind = "extract" /\ pc = "x_correction"
    /\ LET prompt == CorrectionOf(ExtractionPrompt(sections[sec_idx][1]))
       IN  \/ /\ calls' = Append(calls, Call(76, sec_idx, prompt, "raised"))
              /\ outcome' = Raised("RuntimeError", "Bedrock request failed")
              /\ pc' = "done"
              /\ UNCHANGED <<response, aggregated, sec_idx>>
           \/ \E text \in ExtractionTexts(Len(calls) + 1) :
                LET parsed == SafeParseJson(text)
                IN  /\ calls' = Append(calls, Call(76, sec_idx, prompt, ParseResult(parsed)))
                    /\ response' = text
                    /\ aggregated' = IF parsed.some
                                     THEN MergeRequirements(aggregated, parsed.obj)
                                     ELSE aggregated
                    /\ outcome' = outcome
                    /\ ExtAdvance
    /\ log' = log
    /\ ExtFrame
    /\ UNCHANGED sections

\* lines 71-81 and 32: the correction call of a section
ExtCorrection ==
    /\ kind = "extract" /\ pc = "x_correction"
    /\ LET prompt == CorrectionOf(ExtractionPrompt(sections[sec_idx][1]))
       IN  \/ /\ calls' = Append(calls, Call(76, sec_idx, prompt, "raised"))
              /\ outcome' = Raised("RuntimeError", "Bedrock request failed")
              /\ pc' = "done"
              /\ UNCHANGED <<response, aggregated, sec_idx>>
           \/ \E text \in ExtractionTexts(Len(calls) + 1) :
                LET parsed == SafeParseJson(text)
                IN  /\ calls' = Append(calls, Call(76, sec_idx, prompt, ParseResult(parsed)))
                    /\ response' = text
                    /\ IF parsed.some
                       THEN /\ aggregated' = MergeRequirements(aggregated, parsed.obj)
                            /\ outcome' = outcome
                            /\ ExtAdvance
                       ELSE /\ outcome' = Raised("ValueError",
                                                 "LLM returned invalid JSON after retry")
                            /\ pc' = "done"
                            /\ UNCHANGED <<aggregated, sec_idx>>
    /\ log' = log
    /\ ExtFrame
    /\ UNCHANGED sections

\* lines 34-37 with lines 65-70: the refinement call; its parsed response
\* is the result
ExtRefine ==
    /\ kind = "extract" /\ pc = "x_refine"
    /\ LET prompt == RefinementPromptOf(aggregated)
           rec == LogRec("Refining aggregated requirements", "", 0)
       IN  \/ /\ calls' = Append(calls, Call(65, 0, prompt, "raised"))
              /\ outcome' = Raised("RuntimeError", "Bedrock request failed")
              /\ pc' = "done"
              /\ log' = Append(log, rec)
              /\ response' = response
           \/ \E text \in RefinementTexts(aggregated, Len(calls) + 1) :
                LET parsed == SafeParseJson(text)
                IN  /\ calls' = Append(calls, Call(65, 0, prompt, ParseResult(parsed)))
                    /\ response' = text
                    /\ IF parsed.some
                       THEN /\ outcome' = Returned(DictValue(parsed.obj))
                            /\ pc' = "done"
                            /\ log' = Append(log, rec)
                       ELSE /\ outcome' = outcome
                            /\ pc' = "x_refine_correction"
                            /\ log' = log \o <<rec, RetryRec>>
    /\ ExtFrame
    /\ UNCHANGED <<sections, sec_idx, aggregated>>

\* lines 36-37 with lines 71-81: the correction call of the refinement
ExtRefineCorrection ==
    /\ kind = "extract" /\ pc = "x_refine_correction"
    /\ LET prompt == CorrectionOf(RefinementPromptOf(aggregated))
       IN  \/ /\ calls' = Append(calls, Call(76, 0, prompt, "raised"))
              /\ outcome' = Raised("RuntimeError", "Bedrock request failed")
              /\ response' = response
           \/ \E text \in RefinementTexts(aggregated, Len(calls) + 1) :
                LET parsed == SafeParseJson(text)
                IN  /\ calls' = Append(calls, Call(76, 0, prompt, ParseResult(parsed)))
                    /\ response' = text
                    /\ outcome' = IF parsed.some THEN Returned(DictValue(parsed.obj))
                                  ELSE Raised("ValueError",
                                              "LLM returned invalid JSON after retry")
    /\ pc' = "done"
    /\ log' = log
    /\ ExtFrame
    /\ UNCHANGED <<sections, sec_idx, aggregated>>

\* a call extract_requirements(rfp_text)
InitExtraction ==
    /\ kind = "extract"
    /\ pc = "entry"
    /\ requirements = ReqNone
    /\ document_type = ""
    /\ retrieved = <<>>
    /\ sections = <<>>
    /\ activities = <<>>
    /\ sec_idx = 0
    /\ merged = <<>>
    /\ section_prompt = NoPrompt
    /\ section_retry_count = 0
    /\ response = <<>>
    /\ sections_generated = 0
    /\ sections_expected = 0
    /\ llm_calls = 0
    /\ total_retries = 0
    /\ deviants = 0
    /\ calls = <<>>
    /\ log = <<>>
    /\ outcome = Running
    /\ rfp_text \in RfpTexts
    /\ aggregated = <<>>
    /\ rfp_summary = ""
    /\ store = <<>>
    /\ results = <<>>
    /\ accesses = <<>>
    /\ user_prompt = ""
    /\ attempt = 0
    /\ replies = <<>>
    /\ sleeps = <<>>
    /\ object_text = <<>>
    /\ wrapping = ""
    /\ project_text = ""
    /\ metadata = [document_type |-> "None", project_name |-> "None"]
    /\ doc_id = ""
    /\ runs = 0
    /\ merge_payload = None
    /\ frames = <<>>
    /\ session_store = <<>>
    /\ sessions_dir = <<>>
    /\ now = 0
    /\ follow_up = [session_id |-> "", given |-> FALSE, words |-> {}]
    /\ invoked = <<>>

NextExtraction ==
    \/ ExtEntry
    \/ ExtCall
    \/ ExtCorrection
    \/ ExtRefine
    \/ ExtRefineCorrection

SpecExtraction == InitExtraction /\ [][NextExtraction]_vars

-----------------------------------------------------------------------------
(* retrieval_service._format_results                                       *)
(*                                                                         *)
(* A similarity score is an integer number of score units.  An aggregated  *)
(* score is counted in sixtieths of a unit, so that max + 0.3 * average is *)
(* an integer whether the average is over one, two or three scores.  A     *)
(* confidence score is a fraction [num, den].  The descriptive fields of a *)
(* project (tech_stack, duration, team_size) are carried along and take no *)
(* part in the scores; they are left out.                                  *)

\* one hit of the retriever: the project_name of its metadata ("" when it
\* has none) and its score, or no score
Hit(name, score) == [project_name |-> name, score |-> score, scored |-> TRUE]
Unscored(name) == [project_name |-> name, score |-> 0, scored |-> FALSE]

\* line 101: metadata.get("project_name") or "Unknown"
ProjectNameOf(hit) == IF hit.project_name = "" THEN "Unknown" ELSE hit.project_name

\* every hit, with a score or without
ScoredAll(hits) == hits

\* lines 98-117: the hits that have a score, in order
Scored(hits) == SelectSeq(hits, LAMBDA h : h.scored)

\* lines 106-117: the projects in the order of their first hit, each with
\* the scores of its hits in order
RECURSIVE Grouped(_, _)
Grouped(hits, grouped) ==
    IF hits = <<>> THEN grouped
    ELSE LET name == ProjectNameOf(Head(hits))
             at == {i \in 1..Len(grouped) : grouped[i].project_name = name}
         IN  IF at = {}
             THEN Grouped(Tail(hits),
                          Append(grouped, [project_name |-> name,
                                           scores |-> <<Head(hits).score>>]))
             ELSE Grouped(Tail(hits),
                          [grouped EXCEPT ![CHOOSE i \in at : TRUE].scores =
                               Append(@, Head(hits).score)])

\* sorted(scores, reverse=True)
RECURSIVE SortedScores(_)
SortedScores(scores) ==
    IF scores = <<>> THEN <<>>
    ELSE LET top == CHOOSE i \in 1..Len(scores) :
                       \A j \in 1..Len(scores) : scores[j] <= scores[i]
             rest == [j \in 1..(Len(scores) - 1) |->
                         IF j < top THEN scores[j] ELSE scores[j + 1]]
         IN  <<scores[top]>> \o SortedScores(rest)

RECURSIVE Sum(_)
Sum(scores) == IF scores = <<>> THEN 0 ELSE Head(scores) + Sum(Tail(scores))

\* every score instead of the best three
Top3All(scores) == scores

\* line 129: scores[:3]
Top3(scores) == SubSeq(scores, 1, IF Len(scores) < 3 THEN Len(scores) ELSE 3)

\* lines 127-131: max_score + 0.3 * (sum(top3) / len(top3)), in sixtieths
FinalScore(project_scores) ==
    LET scores == SortedScores(project_scores)
        max_score == scores[1]
        top3 == Top3(scores)
    IN  60 * max_score + (18 \div Len(top3)) * Sum(top3)

One == [num |-> 1, den |-> 1]

\* line 153 without the subtraction of the minimum
ConfidenceUnshifted(score, min_score, denominator) ==
    IF denominator = 0 THEN One
    ELSE [num |-> score, den |-> denominator]

\* lines 150-153 without the test of line 150
ConfidenceUnguarded(score, min_score, denominator) ==
    [num |-> score - min_score, den |-> denominator]

\* lines 150-153
Confidence(score, min_score, denominator) ==
    IF denominator = 0 THEN One
    ELSE [num |-> score - min_score, den |-> denominator]

\* lines 155-159 without the sort
SortedByScoreNot(aggregated_items) == aggregated_items

\* sorted(aggregated, key=aggregated_score, reverse=True): the items of
\* equal score keep their order
RECURSIVE SortedByScore(_)
SortedByScore(aggregated_items) ==
    IF aggregated_items = <<>> THEN <<>>
    ELSE LET n == Len(aggregated_items)
             top == CHOOSE i \in 1..n :
                       /\ \A j \in 1..n : aggregated_items[j].aggregated_score
                                            <= aggregated_items[i].aggregated_score
                       /\ \A j \in 1..(i - 1) : aggregated_items[j].aggregated_score
                                                  < aggregated_items[i].aggregated_score
             rest == [j \in 1..(n - 1) |->
                         IF j < top THEN aggregated_items[j] ELSE aggregated_items[j + 1]]
         IN  <<aggregated_items[top]>> \o SortedByScore(rest)

Minimum(S) == CHOOSE x \in S : \A y \in S : x <= y
Maximum(S) == CHOOSE x \in S : \A y \in S : y <= x

\* _format_results
FormatResults(hits) ==
    LET grouped == Grouped(Scored(hits), <<>>)
        finals == [i \in 1..Len(grouped) |-> FinalScore(grouped[i].scores)]
        all == {finals[i] : i \in 1..Len(grouped)}
        min_score == Minimum(all)
        max_score == Maximum(all)
        denominator == max_score - min_score
        aggregated_items ==
            [i \in 1..Len(grouped) |->
                [project_name |-> grouped[i].project_name,
                 aggregated_score |-> finals[i],
                 number_of_matching_chunks |-> Len(grouped[i].scores),
                 confidence_score |-> Confidence(finals[i], min_score, denominator)]]
        ordered == SortedByScore(aggregated_items)
    IN  IF grouped = <<>> THEN <<>>
        ELSE SubSeq(ordered, 1, IF Len(ordered) < TOP_K THEN Len(ordered) ELSE TOP_K)

\* the value a retrieval returns: its list of projects
MatchesValue(matches) == [shape |-> "matches", document |-> matches, obj |-> EmptyDict]

\* the hits a retriever may hand to _format_results
HitNames == {"Project A", "Project B", ""}
HitScores == {3, 9}
Hits == {Hit(n, v) : n \in HitNames, v \in HitScores} \cup {Unscored(n) : n \in HitNames}
HitLists == UNION {[1..n -> Hits] : n \in 1..MaxHits}

\* line 89: return _format_results(results)
FormatCall ==
    /\ kind = "format" /\ pc = "format"
    /\ outcome' = Returned(MatchesValue(FormatResults(results)))
    /\ pc' = "done"
    /\ UNCHANGED <<kind, requirements, document_type, retrieved, sections, activities,
                   sec_idx, merged, section_prompt, section_retry_count, response,
                   sections_generated, sections_expected, llm_calls, total_retries,
                   deviants, calls, log, OtherVars>>

InitFormat ==
    /\ kind = "format"
    /\ pc = "format"
    /\ requirements = ReqNone
    /\ document_type = ""
    /\ retrieved = <<>>
    /\ sections = <<>>
    /\ activities = <<>>
    /\ sec_idx = 0
    /\ merged = <<>>
    /\ section_prompt = NoPrompt
    /\ section_retry_count = 0
    /\ response = <<>>
    /\ sections_generated = 0
    /\ sections_expected = 0
    /\ llm_calls = 0
    /\ total_retries = 0
    /\ deviants = 0
    /\ calls = <<>>
    /\ log = <<>>
    /\ outcome = Running
    /\ rfp_text = <<>>
    /\ aggregated = <<>>
    /\ rfp_summary = ""
    /\ store = <<>>
    /\ results \in HitLists
    /\ accesses = <<>>
    /\ user_prompt = ""
    /\ attempt = 0
    /\ replies = <<>>
    /\ sleeps = <<>>
    /\ object_text = <<>>
    /\ wrapping = ""
    /\ project_text = ""
    /\ metadata = [document_type |-> "None", project_name |-> "None"]
    /\ doc_id = ""
    /\ runs = 0
    /\ merge_payload = None
    /\ frames = <<>>
    /\ session_store = <<>>
    /\ sessions_dir = <<>>
    /\ now = 0
    /\ follow_up = [session_id |-> "", given |-> FALSE, words |-> {}]
    /\ invoked = <<>>

NextFormat == FormatCall

SpecFormat == InitFormat /\ [][NextFormat]_vars

-----------------------------------------------------------------------------
(* retrieval_service.retrieve_similar_projects                             *)

\* the queries: the empty string, white space, two queries with text
Queries == {"", " ", "cloud migration", "data platform"}

\* str.strip of a query
StripQuery(q) == IF q = " " THEN "" ELSE q

\* line 27 without the strip
QueryEmptyUnstripped(q) == q = ""

\* line 27: not rfp_summary or not rfp_summary.strip()
QueryEmpty(q) == q = "" \/ StripQuery(q) = ""

\* the category filters: none (None or ""), and two categories
FilterTypes == {"", "estimation", "proposal"}

\* a chunk of the index: its document_type and project_name metadata and
\* its similarity to the query
Chunk(type, name, score) == [document_type |-> type, project_name |-> name, score |-> score]

Chunks == {Chunk(t, n, v) : t \in {"estimation", "proposal"},
                            n \in {"Project A", "Project B"}, v \in HitScores}

\* the index, its chunks ordered by their similarity to the query
SortedDown(chunks) ==
    \A i \in 1..(Len(chunks) - 1) : chunks[i].score >= chunks[i + 1].score

\* an index of more chunks than TOP_K
LargeStore ==
    [i \in 1..(TOP_K + 2) |->
        Chunk(IF i = 2 THEN "proposal" ELSE "estimation",
              IF i % 2 = 0 THEN "Project A" ELSE "Project B",
              IF i < 3 THEN 9 ELSE 3)]

Stores ==
    {st \in UNION {[1..n -> Chunks] : n \in 0..MaxChunks} : SortedDown(st)}
        \cup {LargeStore}

\* retriever.retrieve with similarity_top_k=TOP_K: the TOP_K chunks nearest
\* to the query among those the filter admits ("" admits all)
Retrieve(chunks, filter) ==
    LET admitted == SelectSeq(chunks, LAMBDA c : filter = "" \/ c.document_type = filter)
        nearest == SubSeq(admitted, 1, IF Len(admitted) < TOP_K THEN Len(admitted)
                                       ELSE TOP_K)
    IN  [i \in 1..Len(nearest) |-> Hit(nearest[i].project_name, nearest[i].score)]

\* one use of the embedding provider or of the index
Access(op, ok, n, filter) == [op |-> op, ok |-> ok, n |-> n, filter |-> filter]

\* line 93: any other exception leaves as a RuntimeError
RetrievalFailed == Raised("RuntimeError", "Failed to retrieve similar projects")

\* the classes of exception a call into the embedding or index library may
\* raise, as lines 90-93 tell them apart: a ValueError, or any other
LibraryErrors == {"ValueError", "Exception"}

\* lines 90-93: what the caller gets of an exception raised in the try block
Surfaced(exc) ==
    IF exc \in {"VectorStoreEmptyError", "ValueError"}
    THEN Raised(exc, "raised by the library")
    ELSE RetrievalFailed

RetFrame ==
    UNCHANGED <<kind, requirements, document_type, retrieved, sections, activities,
                sec_idx, merged, section_prompt, section_retry_count, response,
                sections_generated, sections_expected, llm_calls, total_retries,
                deviants, calls, rfp_text, aggregated, rfp_summary,
                user_prompt, attempt, replies, sleeps,
                object_text,
                wrapping,
                project_text, metadata, doc_id, runs,
                merge_payload,
                frames,
                session_store, sessions_dir, now, follow_up, invoked>>

\* lines 27-38: the check of the query, then get_embedding_model()
RetEntry ==
    /\ kind = "retrieve" /\ pc = "entry"
    /\ IF QueryEmpty(rfp_summary)
       THEN /\ outcome' = Raised("ValueError", "Query cannot be empty")
            /\ pc' = "done"
            /\ UNCHANGED <<accesses, log>>
       ELSE \/ /\ accesses' = Append(accesses, Access("get_embedding_model", FALSE, 0, ""))
               /\ outcome' = RetrievalFailed
               /\ pc' = "done"
               /\ log' = log
            \/ /\ accesses' = Append(accesses, Access("get_embedding_model", TRUE, 0, ""))
               /\ outcome' = outcome
               /\ pc' = "store"
               /\ log' = Append(log, LogRec("Retrieval request", document_type, 0))
    /\ RetFrame
    /\ UNCHANGED <<store, results>>

\* the index queried whatever its count
RetStoreUnchecked ==
    /\ kind = "retrieve" /\ pc = "store"
    /\ \/ /\ accesses' = Append(accesses, Access("get_vector_store", FALSE, 0, ""))
          /\ outcome' = RetrievalFailed
          /\ pc' = "done"
       \/ /\ accesses' = accesses \o <<Access("get_vector_store", TRUE, 0, ""),
                                       Access("count", FALSE, 0, "")>>
          /\ \E exc \in LibraryErrors : outcome' = Surfaced(exc)
          /\ pc' = "done"
       \/ /\ accesses' = accesses \o <<Access("get_vector_store", TRUE, 0, ""),
                                       Access("count", TRUE, Len(store), "")>>
          /\ outcome' = outcome
          /\ pc' = "query"
    /\ RetFrame
    /\ UNCHANGED <<store, results, log>>

\* lines 40-45: get_vector_store(), the count of the index (either may
\* raise), the index
RetStore ==
    /\ kind = "retrieve" /\ pc = "store"
    /\ \/ /\ accesses' = Append(accesses, Access("get_vector_store", FALSE, 0, ""))
          /\ outcome' = RetrievalFailed
          /\ pc' = "done"
       \/ /\ accesses' = accesses \o <<Access("get_vector_store", TRUE, 0, ""),
                                       Access("count", FALSE, 0, "")>>
          /\ \E exc \in LibraryErrors : outcome' = Surfaced(exc)
          /\ pc' = "done"
       \/ /\ accesses' = accesses \o <<Access("get_vector_store", TRUE, 0, ""),
                                       Access("count", TRUE, Len(store), "")>>
          /\ IF Len(store) = 0
             THEN /\ outcome' = Raised("VectorStoreEmptyError",
                                       "Vector store is empty. Ingest documents before querying.")
                  /\ pc' = "done"
             ELSE /\ outcome' = outcome
                  /\ pc' = "query"
    /\ RetFrame
    /\ UNCHANGED <<store, results, log>>

\* lines 86-89: the result of the call
RetReturn(found) ==
    /\ outcome' = Returned(MatchesValue(IF found = <<>> THEN <<>> ELSE FormatResults(found)))
    /\ pc' = "done"

\* a second query whenever the first found nothing
NeedsFallbackAlways(found, filter) == found = <<>>

\* line 75: not results and document_type
NeedsFallback(found, filter) == found = <<>> /\ filter # ""

\* lines 47-74 and 86-89: the retriever with or without the filter, the
\* embedding of the query, the query of the index
RetQuery ==
    /\ kind = "retrieve" /\ pc = "query"
    /\ LET retrieval_mode == IF document_type # "" THEN "strict" ELSE "semantic"
           head == IF document_type # ""
                   THEN LogRec("Strict filtered retrieval", document_type, 0)
                   ELSE LogRec("Semantic-only retrieval", "", 0)
           found == Retrieve(store, document_type)
       IN  \/ /\ accesses' = Append(accesses, Access("get_query_embedding", FALSE, 0, ""))
              /\ \E exc \in LibraryErrors : outcome' = Surfaced(exc)
              /\ pc' = "done"
              /\ log' = Append(log, head)
              /\ results' = results
           \/ /\ accesses' = accesses \o <<Access("get_query_embedding", TRUE, 0, ""),
                                           Access("retrieve", FALSE, 0, document_type)>>
              /\ \E exc \in LibraryErrors : outcome' = Surfaced(exc)
              /\ pc' = "done"
              /\ log' = Append(log, head)
              /\ results' = results
           \/ /\ accesses' = accesses \o <<Access("get_query_embedding", TRUE, 0, ""),
                                           Access("retrieve", TRUE, Len(found), document_type)>>
              /\ results' = found
              /\ log' = log \o <<head, LogRec("Retrieval results", retrieval_mode, Len(found))>>
              /\ IF NeedsFallback(found, document_type)
                 THEN pc' = "fallback" /\ outcome' = outcome
                 ELSE RetReturn(found)
    /\ RetFrame
    /\ store' = store

\* lines 75-89: the query repeated without the filter
RetFallback ==
    /\ kind = "retrieve" /\ pc = "fallback"
    /\ LET found == Retrieve(store, "")
           warned == log \o <<LogRec("No results; retrying without filter", document_type, 0),
                              LogRec("Fallback to semantic-only retrieval", "", 0)>>
       IN  \/ /\ accesses' = Append(accesses, Access("retrieve", FALSE, 0, ""))
              /\ \E exc \in LibraryErrors : outcome' = Surfaced(exc)
              /\ pc' = "done"
              /\ log' = warned
              /\ results' = results
           \/ /\ accesses' = Append(accesses, Access("retrieve", TRUE, Len(found), ""))
              /\ results' = found
              /\ log' = Append(warned, LogRec("Retrieval results", "fallback", Len(found)))
              /\ RetReturn(found)
    /\ RetFrame
    /\ store' = store

\* ingest_projects._remove_existing_docs, run by an ingestion while the
\* retrieval is under way: the chunks of one project leave the index
IngestRemoveExisting ==
    /\ kind = "retrieve" /\ pc \in {"store", "query", "fallback"}
    /\ \E name \in {store[i].project_name : i \in 1..Len(store)} :
         store' = SelectSeq(store, LAMBDA c : c.project_name # name)
    /\ RetFrame
    /\ UNCHANGED <<pc, outcome, log, results, accesses>>

InitRetrieval ==
    /\ kind = "retrieve"
    /\ pc = "entry"
    /\ requirements = ReqNone
    /\ document_type \in FilterTypes
    /\ retrieved = <<>>
    /\ sections = <<>>
    /\ activities = <<>>
    /\ sec_idx = 0
    /\ merged = <<>>
    /\ section_prompt = NoPrompt
    /\ section_retry_count = 0
    /\ response = <<>>
    /\ sections_generated = 0
    /\ sections_expected = 0
    /\ llm_calls = 0
    /\ total_retries = 0
    /\ deviants = 0
    /\ calls = <<>>
    /\ log = <<>>
    /\ outcome = Running
    /\ rfp_text = <<>>
    /\ aggregated = <<>>
    /\ rfp_summary \in Queries
    /\ store \in Stores
    /\ results = <<>>
    /\ accesses = <<>>
    /\ user_prompt = ""
    /\ attempt = 0
    /\ replies = <<>>
    /\ sleeps = <<>>
    /\ object_text = <<>>
    /\ wrapping = ""
    /\ project_text = ""
    /\ metadata = [document_type |-> "None", project_name |-> "None"]
    /\ doc_id = ""
    /\ runs = 0
    /\ merge_payload = None
    /\ frames = <<>>
    /\ session_store = <<>>
    /\ sessions_dir = <<>>
    /\ now = 0
    /\ follow_up = [session_id |-> "", given |-> FALSE, words |-> {}]
    /\ invoked = <<>>

NextRetrieval ==
    \/ RetEntry
    \/ RetStore
    \/ RetQuery
    \/ RetFallback
    \/ IngestRemoveExisting

SpecRetrieval == InitRetrieval /\ [][NextRetrieval]_vars

-----------------------------------------------------------------------------
(* Properties                                                              *)

\* the positions in calls of the provider calls of loop position idx
SectionCalls(idx) == {i \in 1..Len(calls) : calls[i].idx = idx}

Least(S) == CHOOSE i \in S : \A j \in S : i <= j
Greatest(S) == CHOOSE i \in S : \A j \in S : i >= j

\* both responses of loop position idx failed to parse
SectionFailed(idx) ==
    /\ Cardinality(SectionCalls(idx)) = 2
    /\ \A i \in SectionCalls(idx) : calls[i].result = "unparseable"

NoCallRaised == \A i \in 1..Len(calls) : calls[i].result # "raised"

LogHas(event) == \E i \in 1..Len(log) : log[i][1] = event
LogCount(event) == Cardinality({i \in 1..Len(log) : log[i][1] = event})

\* the loop positions of a section name
PositionsOf(name) == {idx \in 1..Len(sections) : sections[idx] = name}

\* a section of the list all of whose calls ended in two responses that
\* failed to parse
FailedName(name) ==
    /\ PositionsOf(name) # {}
    /\ \A idx \in PositionsOf(name) : SectionFailed(idx)

\* C1 (as claimed, the part about the failing sections): a request whose
\* provider calls all return (parseable or not) returns a document, and in
\* it every section of the list whose response and retry response both
\* failed to parse holds its skeleton value.
C1_FailureIsolation ==
    (kind = "sow" /\ pc = "done" /\ calls # <<>> /\ NoCallRaised)
    => /\ outcome.status = "returned"
       /\ \A name \in TemplateKeySet :
            FailedName(name) =>
              DocGet(outcome.value.document, name) = DefaultValue(name)

\* C2 (as claimed): a statement-of-work request whose provider calls all
\* fail returns a schema-valid fallback document and does not raise.
C2_FallbackOnProviderFailure ==
    ( /\ kind = "sow" /\ pc = "done"
      /\ calls # <<>>
      /\ \A i \in 1..Len(calls) : calls[i].result = "raised" )
    => /\ outcome.status = "returned"
       /\ SchemaValid(outcome.value)

\* C3 (as claimed): every document generate_statement_of_work returns
\* satisfies the statement-of-work schema.
C3_ReturnedIsSchemaValid ==
    (kind = "sow" /\ outcome.status = "returned") => SchemaValid(outcome.value)

\* C4: in the section loop every entry of the section list receives at most
\* two provider calls; a second call is issued exactly when the first
\* response failed to parse (it is issued, or is the next step of the
\* request), with the system and user prompt of the first; there is no third.
C4_AtMostOneRetry ==
    kind = "sow" =>
      \A idx \in 1..Len(sections) :
        LET at == SectionCalls(idx)
        IN  /\ Cardinality(at) <= 2
            /\ at # {} => calls[Least(at)].site = 103
            /\ Cardinality(at) = 2 =>
                 /\ calls[Least(at)].result = "unparseable"
                 /\ calls[Greatest(at)].site = 120
                 /\ calls[Greatest(at)].prompt = calls[Least(at)].prompt
            /\ (Cardinality(at) = 1 /\ calls[Least(at)].result = "unparseable")
                 => (pc = "section_retry" /\ sec_idx = idx)

\* a finished request in which one section was retried and parsed on the
\* retry, one failed twice, and one parsed at once
C4_Witness ==
    /\ kind = "sow" /\ pc = "done" /\ outcome.status = "returned"
    /\ \E idx \in 1..Len(sections) : SectionFailed(idx)
    /\ \E idx \in 1..Len(sections) :
         /\ Cardinality(SectionCalls(idx)) = 2
         /\ calls[Greatest(SectionCalls(idx))].result = "parsed"
    /\ \E idx \in 1..Len(sections) :
         /\ Cardinality(SectionCalls(idx)) = 1
         /\ calls[Least(SectionCalls(idx))].result = "parsed"

\* the correction calls of a request (sow_service.py:214)
CorrectionCalls == {i \in 1..Len(calls) : calls[i].site = 214}

\* C5 (as claimed): once validation has run, a merged document that fails
\* the schema has led to exactly one correction call and to a schema-valid
\* document being returned, and a merged document that passes the schema is
\* returned with no correction call.
C5_CorrectionOnInvalid ==
    (kind = "sow" /\ pc = "done" /\ LogHas("SOW_VALIDATION_START"))
    => IF SchemaValid(SowValue(merged))
       THEN CorrectionCalls = {} /\ outcome = Returned(SowValue(merged))
       ELSE /\ Cardinality(CorrectionCalls) = 1
            /\ outcome.status = "returned"
            /\ SchemaValid(outcome.value)

\* the index response gives no section list: it does not parse, or its
\* "sections" is not a list with entries
IndexUnusable(text) ==
    LET parsed == SafeParseJson(text)
    IN  \/ ~parsed.some
        \/ "sections" \notin DOMAIN parsed.obj
        \/ parsed.obj["sections"].t # "list"
        \/ parsed.obj["sections"].items = <<>>

\* C6 (as claimed): when the loop is entered it iterates over the default
\* section ordering exactly when the index response gives no section list,
\* and otherwise over the sections the index response names, in their order.
C6_SectionListChoice ==
    (kind = "sow" /\ pc = "section_call" /\ Len(calls) = 1)
    => sections = IF IndexUnusable(response) THEN DefaultSections
                  ELSE SafeParseJson(response).obj["sections"].items

\* the phase a log record belongs to
Phase(rec) ==
    CASE rec[1] \in {"SOW_RETRIEVAL_START", "SOW_RETRIEVAL_END"} -> 1
      [] rec[1] \in {"SOW_INDEX_START", "SOW_INDEX_END"} -> 2
      [] rec[1] \in {"SOW_SECTION_START", "SOW_SECTION_CALL", "SOW_SECTION_END"} -> 3
      [] rec[1] = "SOW_MERGE_END" -> 4
      [] rec[1] = "SOW_VALIDATION_START" -> 5
      [] rec[1] = "SOW_CORRECTION_CALL" -> 6
      [] OTHER -> 7

Drivers == {"estimation", "invoke"}

RetryRecords == LogCount("Invalid JSON from model, retrying with correction prompt")

\* C8: a stage driver issues at most two provider calls for one unit: the
\* correction call is issued only when the first response failed to parse,
\* and then once (with the system prompt of the first call and the fixed
\* correction text); when its response does not parse either the unit ends
\* in a ValueError without any further call.
C8_OneCorrection ==
    kind \in Drivers =>
      /\ Len(calls) <= 2
      /\ Len(calls) = 2 =>
           /\ calls[1].result = "unparseable"
           /\ calls[2].prompt = CorrectionOf(calls[1].prompt)
           /\ calls[2].site \in {47, 76}
      /\ (Len(calls) = 1 /\ calls[1].result = "unparseable") => pc = "correction"
      /\ (Len(calls) = 2 /\ calls[2].result = "unparseable") =>
           (pc = "done" /\ outcome.status = "raised" /\ outcome.exc = "ValueError")

\* _invoke_with_retry ended a unit in its ValueError after two responses
\* that did not parse
C8_Witness ==
    /\ kind = "invoke" /\ pc = "done"
    /\ Len(calls) = 2 /\ calls[2].result = "unparseable"
    /\ outcome = Raised("ValueError", "LLM returned invalid JSON after retry")

\* C9: when the first response does not parse and the response to the
\* correction call is a JSON object, the stage driver returns the object
\* parsed from that second response, and one retry is on record.
C9_CorrectedObject ==
    ( /\ kind \in Drivers /\ pc = "done"
      /\ Len(calls) = 2
      /\ calls[1].result = "unparseable"
      /\ SafeParseJson(response).some )
    => /\ outcome = Returned(DictValue(SafeParseJson(response).obj))
       /\ RetryRecords = 1

\* the estimation driver returned the object of a second response that came
\* between two words of prose
C9_Witness ==
    /\ kind = "estimation" /\ pc = "done"
    /\ Len(calls) = 2 /\ calls[1].result = "unparseable"
    /\ response = <<Prose, LBrace, Member("team_composition", ListVal(<<"Architect">>)),
                    Comma, Member("timeline_months", NumVal(2)), RBrace, Prose>>
    /\ outcome.status = "returned"
    /\ outcome.value.obj = [team_composition |-> ListVal(<<"Architect">>),
                            timeline_months |-> NumVal(2)]

\* C10: an estimation request all of whose provider responses fail to parse
\* ends in the ValueError "LLM returned invalid JSON"; it returns a value
\* only when a response parsed, and then that response's object.
C10_EstimationFailsLoudly ==
    (kind = "estimation" /\ pc = "done") =>
      /\ ( /\ calls # <<>>
           /\ \A i \in 1..Len(calls) : calls[i].result = "unparseable" )
         => outcome = Raised("ValueError", "LLM returned invalid JSON")
      /\ outcome.status = "returned" =>
           /\ calls[Len(calls)].result = "parsed"
           /\ outcome.value = DictValue(SafeParseJson(response).obj)

\* an estimation request ended in the ValueError after two responses that
\* did not parse
C10_Witness ==
    /\ kind = "estimation" /\ pc = "done"
    /\ Len(calls) = 2
    /\ \A i \in 1..2 : calls[i].result = "unparseable"
    /\ outcome.status = "raised" /\ outcome.exc = "ValueError"

\* the sections extract_requirements detects in its text, in document order
Detected ==
    LET split == SplitIntoSections(CleanText(rfp_text))
    IN  IF split = <<>> THEN << <<"RFP", CleanText(rfp_text)>> >> ELSE split

\* an item of the aggregate came from provider call i
FromCall(agg, i) ==
    \E k \in DOMAIN agg : \E j \in 1..Len(agg[k]) : agg[k][j].id = i

\* C11: while every response of an extract_requirements request parses at
\* the first attempt, the calls are one extraction call per detected
\* section, in document order, then one refinement call and no more; the
\* refinement call carries the aggregate into which the results of all the
\* sections were merged, and a request that returns has issued them all.
C11_ExtractionCalls ==
    ( /\ kind = "extract" /\ calls # <<>>
      /\ \A i \in 1..Len(calls) : calls[i].result = "parsed" )
    => LET n == Len(Detected)
       IN  /\ Len(calls) <= n + 1
           /\ \A i \in 1..Len(calls) :
                i <= n => calls[i] = Call(65, i, ExtractionPrompt(Detected[i][1]), "parsed")
           /\ Len(calls) = n + 1 =>
                /\ calls[n + 1] = Call(65, 0, RefinementPromptOf(aggregated), "parsed")
                /\ \A i \in 1..n : FromCall(calls[n + 1].prompt.user.aggregated, i)
           /\ outcome.status = "returned" => Len(calls) = n + 1

\* a request over a text of three sections returned after four calls
C11_Witness ==
    /\ kind = "extract" /\ pc = "done" /\ outcome.status = "returned"
    /\ Len(Detected) = 3
    /\ Detected[1][1] = "Introduction" /\ Detected[2][1] # Detected[3][1]
    /\ Len(calls) = 4
    /\ \A i \in 1..4 : calls[i].result = "parsed"

\* C12 (as claimed): no list of the object extract_requirements returns
\* under one of the five keys holds an item that the aggregate built before
\* the refinement call does not hold.
C12_NoInventedContent ==
    (kind = "extract" /\ outcome.status = "returned")
    => \A k \in ReqKeys \cap DOMAIN outcome.value.obj :
         LET v == outcome.value.obj[k]
         IN  v.t = "list" =>
               \A j \in 1..Len(v.items) :
                 \E k2 \in ReqKeys : \E i \in 1..Len(aggregated[k2]) :
                    aggregated[k2][i] = v.items[j]

\* C13 (as claimed): the object extract_requirements returns has the five
\* keys, each mapped to a list of strings.
C13_FiveKeysOfStrings ==
    (kind = "extract" /\ outcome.status = "returned")
    => /\ ReqKeys \subseteq DOMAIN outcome.value.obj
       /\ \A k \in ReqKeys \cap DOMAIN outcome.value.obj :
            LET v == outcome.value.obj[k]
            IN  /\ v.t = "list"
                /\ \A j \in 1..Len(v.items) : v.items[j].t = "string"

\* C14: a retrieval whose query is empty or white space ends in the
\* ValueError "Query cannot be empty" as its first step, and at no time has
\* it used the embedding provider or the index.
C14_EmptyQueryRejected ==
    (kind = "retrieve" /\ rfp_summary \in {"", " "})
    => /\ accesses = <<>>
       /\ pc # "entry" =>
            (pc = "done" /\ outcome = Raised("ValueError", "Query cannot be empty"))

\* a white-space query was refused over an index that holds chunks
C14_Witness ==
    /\ kind = "retrieve" /\ pc = "done"
    /\ rfp_summary = " " /\ document_type = "estimation" /\ store # <<>>
    /\ outcome.exc = "ValueError"

\* the counts of the index the retrieval has obtained so far
CountAccesses == SelectSeq(accesses, LAMBDA a : a.op = "count" /\ a.ok)

IndexQueries == SelectSeq(accesses, LAMBDA a : a.op = "retrieve")

\* C16: a retrieval queries the index at most twice.  The second query is
\* issued exactly when the first had a category filter and found no chunk
\* (it is issued, or is the next step), and it has no filter; when it finds
\* no chunk either the retrieval returns the empty sequence, not an error.
C16_FilterFallback ==
    kind = "retrieve" =>
      LET q == IndexQueries
      IN  /\ Len(q) <= 2
          /\ Len(q) = 2 =>
               /\ q[1].ok /\ q[1].filter # "" /\ q[1].n = 0
               /\ q[2].filter = ""
               /\ pc = "done"
               /\ (q[2].ok /\ q[2].n = 0) => outcome = Returned(MatchesValue(<<>>))
               /\ q[2].ok => outcome.status = "returned"
          /\ (Len(q) = 1 /\ q[1].ok) =>
               IF q[1].filter # "" /\ q[1].n = 0
               THEN pc = "fallback"
               ELSE pc = "done" /\ outcome.status = "returned"

\* a filter that matched no chunk, then an unfiltered query that found none
\* either, and the empty sequence returned
C16_Witness ==
    /\ kind = "retrieve" /\ pc = "done"
    /\ Len(IndexQueries) = 2
    /\ IndexQueries[2].ok /\ IndexQueries[2].n = 0
    /\ outcome = Returned(MatchesValue(<<>>))

\* the list a finished _format_results returned
Matches == outcome.value.document

\* the hits that belong to a project of the result
HitsOf(name) ==
    {i \in 1..Len(results) : results[i].scored /\ ProjectNameOf(results[i]) = name}

RECURSIVE ScoreSum(_)
ScoreSum(at) ==
    IF at = {} THEN 0
    ELSE LET i == CHOOSE i \in at : TRUE IN results[i].score + ScoreSum(at \ {i})

\* C17: the aggregated score of every returned project is the maximum of
\* the scores of the hits of that project plus 0.3 times the average of the
\* three best of them (of all of them when they are fewer), here in
\* sixtieths of a score unit.
C17_AggregatedScore ==
    (kind = "format" /\ pc = "done") =>
      \A p \in 1..Len(Matches) :
        LET own == HitsOf(Matches[p].project_name)
            k == IF Cardinality(own) < 3 THEN Cardinality(own) ELSE 3
        IN  /\ own # {}
            /\ Matches[p].number_of_matching_chunks = Cardinality(own)
            /\ \E best \in SUBSET own :
                 /\ Cardinality(best) = k
                 /\ \A i \in best : \A j \in own \ best :
                      results[i].score >= results[j].score
                 /\ 60 * Matches[p].aggregated_score =
                      60 * (60 * Maximum({results[i].score : i \in own}))
                      + 18 * ((60 * ScoreSum(best)) \div k)

\* a project of four hits, three of them at 9 and one at 3, among the results
C17_Witness ==
    /\ kind = "format" /\ pc = "done"
    /\ Len(results) = 4
    /\ \A i \in 1..4 : results[i].scored /\ results[i].project_name = "Project A"
    /\ {i \in 1..4 : results[i].score = 3} = {2}
    /\ Len(Matches) = 1
    /\ Matches[1].aggregated_score = 60 * 9 + 18 * 9

AllScores == {Matches[p].aggregated_score : p \in 1..Len(Matches)}

\* C18: in a result of two or more projects every confidence score is a
\* fraction between 0 and 1, it is 1 for a project of the maximum aggregated
\* score and, when the aggregated scores are not all equal, 0 for a project
\* of the minimum aggregated score.
C18_ConfidenceRange ==
    (kind = "format" /\ pc = "done" /\ Len(Matches) >= 2) =>
      \A p \in 1..Len(Matches) :
        LET c == Matches[p].confidence_score
        IN  /\ c.den > 0 /\ 0 <= c.num /\ c.num <= c.den
            /\ Matches[p].aggregated_score = Maximum(AllScores) => c.num = c.den
            /\ ( /\ Cardinality(AllScores) > 1
                 /\ Matches[p].aggregated_score = Minimum(AllScores) ) => c.num = 0

\* three projects of three different aggregated scores: one has a confidence
\* strictly between 0 and 1
C18_Witness ==
    /\ kind = "format" /\ pc = "done"
    /\ Len(Matches) = 3
    /\ Cardinality(AllScores) = 3
    /\ \E p \in 1..3 : LET c == Matches[p].confidence_score
                       IN  0 < c.num /\ c.num < c.den

\* C19: when the aggregated scores of all the projects of a result are the
\* same (one project or several), every confidence score is exactly 1.
C19_EqualScores ==
    (kind = "format" /\ pc = "done" /\ Cardinality(AllScores) = 1) =>
      /\ outcome.status = "returned"
      /\ \A p \in 1..Len(Matches) : Matches[p].confidence_score = One

\* two projects of the same aggregated score
C19_Witness ==
    /\ kind = "format" /\ pc = "done"
    /\ Len(Matches) = 2
    /\ Matches[1].aggregated_score = Matches[2].aggregated_score
    /\ Matches[1].confidence_score = One /\ Matches[2].confidence_score = One

C21_FailuresWrapped ==
    ( /\ kind = "retrieve" /\ pc = "done"
      /\ accesses # <<>> /\ ~accesses[Len(accesses)].ok )
    => outcome = RetrievalFailed

-----------------------------------------------------------------------------
(* bedrock_client.BedrockClient.generate                                   *)

\* the user prompts: empty, white space, a prompt with text
UserPrompts == {"", " ", "Estimate the project"}

\* line 34: not user_prompt or not user_prompt.strip()
PromptEmpty(prompt) == prompt = "" \/ prompt = " "

\* the exceptions of lines 64-66
TransientErrors ==
    {"ThrottlingException", "ProvisionedThroughputExceededException",
     "ServiceUnavailableException"}

\* the exceptions of lines 79-93, each with the message of its handler
PermanentErrors ==
    {"ValidationException", "AccessDeniedException", "ResourceNotFoundException",
     "ServiceQuotaExceededException", "InternalServerException"}

\* the other exceptions converse and _extract_converse_text may raise:
\* lines 94-99
OtherErrors == {"ClientError", "BotoCoreError", "AttributeError"}

\* one answer of the provider to converse: an exception, or a payload whose
\* text parts joined are text (" " for white space, "" for none)
Reply(error, text) == [error |-> error, text |-> text]

ProviderReplies ==
    {Reply(e, "") : e \in TransientErrors \cup PermanentErrors \cup OtherErrors}
        \cup {Reply("", t) : t \in {"", " ", "A plan in three phases"}}

\* _extract_converse_text: the text parts joined and stripped
ExtractConverseText(reply) == IF reply.text = " " THEN "" ELSE reply.text

\* retries on InternalServerException as well
IsTransientOrInternal(error) == error \in TransientErrors \cup {"InternalServerException"}

\* lines 63-67: the exceptions the loop retries on
IsTransient(error) == error \in TransientErrors

\* lines 79-99: the message of the RuntimeError raised for an exception
FailureMessage(error) ==
    CASE error = "ValidationException" -> "Bedrock request validation failed"
      [] error = "AccessDeniedException" -> "Bedrock access denied"
      [] error = "ResourceNotFoundException" -> "Bedrock model not found"
      [] error = "ServiceQuotaExceededException" -> "Bedrock service quota exceeded"
      [] error = "InternalServerException" -> "Bedrock internal server error"
      [] error \in {"ClientError", "BotoCoreError"} -> "Bedrock request failed"
      [] OTHER -> "Unexpected Bedrock response format"

\* four delays instead of three
BackoffsFour == <<5, 10, 20, 40>>

\* line 54: backoffs = [0.5, 1.0, 2.0], in tenths of a second
Backoffs == <<5, 10, 20>>

\* the value generate returns: the text of the model
TextValue(text) == [shape |-> "text", document |-> <<text>>, obj |-> EmptyDict]

GenFrame ==
    UNCHANGED <<kind, requirements, document_type, retrieved, sections, activities,
                sec_idx, merged, section_prompt, section_retry_count, response,
                sections_generated, sections_expected, llm_calls, total_retries,
                deviants, calls, rfp_text, aggregated, rfp_summary, store, results,
                accesses, user_prompt, object_text, wrapping,
                project_text, metadata, doc_id, runs, merge_payload, frames,
                session_store, sessions_dir, now, follow_up, invoked>>

\* lines 34-55: the check of the prompt, the request, the empty counter
GenEntry ==
    /\ kind = "generate" /\ pc = "entry"
    /\ IF PromptEmpty(user_prompt)
       THEN /\ outcome' = Raised("ValueError", "user_prompt must be a non-empty string")
            /\ pc' = "done"
       ELSE /\ outcome' = outcome
            /\ pc' = "converse"
    /\ attempt' = 0
    /\ GenFrame
    /\ UNCHANGED <<replies, sleeps, log>>

\* lines 56-99: one turn of the loop, from converse to the return, the
\* raise, or the end of the sleep
GenAttempt ==
    /\ kind = "generate" /\ pc = "converse"
    /\ \E reply \in ProviderReplies :
         /\ replies' = Append(replies, reply)
         /\ IF reply.error = ""
            THEN /\ outcome' = IF ExtractConverseText(reply) = ""
                               THEN Raised("RuntimeError", "Empty response from Bedrock model")
                               ELSE Returned(TextValue(ExtractConverseText(reply)))
                 /\ pc' = "done"
                 /\ UNCHANGED <<attempt, sleeps, log>>
            ELSE IF IsTransient(reply.error)
            THEN IF attempt >= Len(Backoffs)
                 THEN /\ outcome' = Raised("RuntimeError", "Bedrock request failed")
                      /\ pc' = "done"
                      /\ log' = Append(log, LogRec("Bedrock request failed after retries", "", 0))
                      /\ UNCHANGED <<attempt, sleeps>>
                 ELSE /\ attempt' = attempt + 1
                      /\ sleeps' = Append(sleeps, Backoffs[attempt + 1])
                      /\ log' = Append(log, LogRec("Bedrock retrying after error", "",
                                                   attempt + 1))
                      /\ UNCHANGED <<outcome, pc>>
            ELSE /\ outcome' = Raised("RuntimeError", FailureMessage(reply.error))
                 /\ pc' = "done"
                 /\ log' = Append(log, LogRec(FailureMessage(reply.error), "", 0))
                 /\ UNCHANGED <<attempt, sleeps>>
    /\ GenFrame

InitGenerate ==
    /\ kind = "generate"
    /\ pc = "entry"
    /\ requirements = ReqNone
    /\ document_type = ""
    /\ retrieved = <<>>
    /\ sections = <<>>
    /\ activities = <<>>
    /\ sec_idx = 0
    /\ merged = <<>>
    /\ section_prompt = NoPrompt
    /\ section_retry_count = 0
    /\ response = <<>>
    /\ sections_generated = 0
    /\ sections_expected = 0
    /\ llm_calls = 0
    /\ total_retries = 0
    /\ deviants = 0
    /\ calls = <<>>
    /\ log = <<>>
    /\ outcome = Running
    /\ rfp_text = <<>>
    /\ aggregated = <<>>
    /\ rfp_summary = ""
    /\ store = <<>>
    /\ results = <<>>
    /\ accesses = <<>>
    /\ user_prompt \in UserPrompts
    /\ attempt = 0
    /\ replies = <<>>
    /\ sleeps = <<>>
    /\ object_text = <<>>
    /\ wrapping = ""
    /\ project_text = ""
    /\ metadata = [document_type |-> "None", project_name |-> "None"]
    /\ doc_id = ""
    /\ runs = 0
    /\ merge_payload = None
    /\ frames = <<>>
    /\ session_store = <<>>
    /\ sessions_dir = <<>>
    /\ now = 0
    /\ follow_up = [session_id |-> "", given |-> FALSE, words |-> {}]
    /\ invoked = <<>>

NextGenerate == GenEntry \/ GenAttempt

\* the loop is one thread of control: a turn that can be taken is taken
SpecGenerate == InitGenerate /\ [][NextGenerate]_vars /\ WF_vars(NextGenerate)

\* the answers before the last one
Earlier == SubSeq(replies, 1, Len(replies) - 1)

\* the safety half of C22
C22_Bounded ==
    kind = "generate" =>
      /\ Len(replies) <= 4
      /\ \A i \in 1..Len(Earlier) : Earlier[i].error \in TransientErrors
      /\ Len(sleeps) <= 3
      /\ sleeps = SubSeq(<<5, 10, 20>>, 1, Len(sleeps))
      /\ Len(sleeps) = Cardinality({i \in 1..Len(replies) :
                                      i < 4 /\ replies[i].error \in TransientErrors})
      /\ (pc = "converse" /\ ~PromptEmpty(user_prompt)) => Len(replies) = Len(sleeps)
      /\ outcome.status = "returned" =>
           /\ replies # <<>>
           /\ replies[Len(replies)].error = ""
           /\ outcome.value = TextValue(replies[Len(replies)].text)
           /\ replies[Len(replies)].text \notin {"", " "}
      /\ (Len(replies) = 4 /\ replies[4].error \in TransientErrors) =>
           /\ pc = "done"
           /\ outcome = Raised("RuntimeError", "Bedrock request failed")

\* C22: generate retries only on a transient provider error, sleeping 0.5 s,
\* 1.0 s, 2.0 s in that order; it makes at most four provider attempts,
\* returns the text of the first attempt that succeeds, raises when the
\* fourth attempt is transient too, and always ends.
C22_BoundedRetry == []C22_Bounded /\ <>(pc = "done")

\* three transient errors, three sleeps, then the text of the fourth attempt
C22_Witness ==
    /\ kind = "generate" /\ pc = "done"
    /\ Len(replies) = 4
    /\ sleeps = <<5, 10, 20>>
    /\ outcome = Returned(TextValue("A plan in three phases"))

\* C23: a permanent provider error, an empty model result or any other
\* failure of an attempt ends generate at that attempt with a RuntimeError;
\* an empty user prompt ends it in ValueError with no attempt made.
C23_NoRetryOnPermanent ==
    kind = "generate" =>
      /\ \A i \in 1..Len(replies) :
           (replies[i].error \in PermanentErrors \cup OtherErrors
              \/ (replies[i].error = "" /\ replies[i].text \in {"", " "}))
           => /\ i = Len(replies)
              /\ pc = "done"
              /\ outcome.status = "raised" /\ outcome.exc = "RuntimeError"
              /\ replies[i].error = "" =>
                   outcome.msg = "Empty response from Bedrock model"
              /\ replies[i].error # "" => outcome.msg # "Empty response from Bedrock model"
      /\ user_prompt \in {"", " "} =>
           /\ replies = <<>> /\ sleeps = <<>>
           /\ pc # "entry" =>
                (pc = "done" /\ outcome = Raised("ValueError",
                                                 "user_prompt must be a non-empty string"))

\* a quota error after two transient retries ended the call at once
C23_Witness ==
    /\ kind = "generate" /\ pc = "done"
    /\ Len(replies) = 3
    /\ replies[1].error = "ThrottlingException"
    /\ replies[2].error = "ServiceUnavailableException"
    /\ replies[3].error = "ServiceQuotaExceededException"
    /\ outcome = Raised("RuntimeError", "Bedrock service quota exceeded")

-----------------------------------------------------------------------------
(* The response parser on wrapped JSON object texts                        *)

\* the members of the object texts: two keys, one of them the word json,
\* and two values
ParserMembers == {Member(k, v) : k \in {"a", "json"}, v \in {NumVal(1), StrVal(1)}}

\* the text of a JSON object of the given members
RECURSIVE Joined(_)
Joined(members) ==
    IF members = <<>> THEN <<>>
    ELSE IF Len(members) = 1 THEN <<members[1]>>
    ELSE <<members[1], Comma>> \o Joined(Tail(members))

ObjectText(members) == <<LBrace>> \o Joined(members) \o <<RBrace>>

\* the JSON object texts: at most two members
ObjectTexts == {ObjectText(m) : m \in UNION {[1..n -> ParserMembers] : n \in 0..2}}

Fence == <<Tick, Tick, Tick>>

\* an object text in a code fence, with and without the language tag
Fenced(text, tagged) ==
    Fence \o (IF tagged THEN <<JsonWord>> ELSE <<>>) \o <<Ws>> \o text \o <<Ws>> \o Fence

\* texts without a brace that may stand before or after an object text
Proses == {<<>>, <<Prose>>, <<Prose, Ws>>, <<Ws, Prose, JsonWord>>, Fence \o <<Prose, Ws>>}

\* texts in which no { is followed by a }
Braceless == {<<>>, <<Ws>>, <<Prose>>, <<RBrace, LBrace>>, <<LBrace, Prose>>,
              <<Prose, RBrace>>, Fence \o <<JsonWord, Ws, Prose, Ws>> \o Fence}

\* the inputs of the parser: an object text bare, fenced, or between proses,
\* and the texts without an object
ParserInputs ==
    {[text |-> j, object |-> j, wrap |-> "bare"] : j \in ObjectTexts}
    \cup {[text |-> Fenced(j, t), object |-> j, wrap |-> "fence"] :
             j \in ObjectTexts, t \in BOOLEAN}
    \cup {[text |-> a \o j \o b, object |-> j, wrap |-> "prose"] :
             j \in ObjectTexts, a \in Proses, b \in Proses \ {Fence \o <<Prose, Ws>>}}
    \cup {[text |-> x, object |-> <<>>, wrap |-> "none"] : x \in Braceless}

\* Optional[dict] as the value of a call
ParsedValue(parsed) == IF parsed.some THEN DictValue(parsed.obj) ELSE NoValue

\* _safe_parse_json(text)
ParseCall ==
    /\ kind = "parse" /\ pc = "parse"
    /\ outcome' = Returned(ParsedValue(SafeParseJson(response)))
    /\ pc' = "done"
    /\ UNCHANGED <<kind, requirements, document_type, retrieved, sections, activities,
                   sec_idx, merged, section_prompt, section_retry_count, response,
                   sections_generated, sections_expected, llm_calls, total_retries,
                   deviants, calls, log, OtherVars>>

InitParser ==
    /\ kind = "parse"
    /\ pc = "parse"
    /\ requirements = ReqNone
    /\ document_type = ""
    /\ retrieved = <<>>
    /\ sections = <<>>
    /\ activities = <<>>
    /\ sec_idx = 0
    /\ merged = <<>>
    /\ section_prompt = NoPrompt
    /\ section_retry_count = 0
    /\ \E input \in ParserInputs :
         /\ wrapping = input.wrap
         /\ response = input.text
         /\ object_text = input.object
    /\ sections_generated = 0
    /\ sections_expected = 0
    /\ llm_calls = 0
    /\ total_retries = 0
    /\ deviants = 0
    /\ calls = <<>>
    /\ log = <<>>
    /\ outcome = Running
    /\ rfp_text = <<>>
    /\ aggregated = <<>>
    /\ rfp_summary = ""
    /\ store = <<>>
    /\ results = <<>>
    /\ accesses = <<>>
    /\ user_prompt = ""
    /\ attempt = 0
    /\ replies = <<>>
    /\ sleeps = <<>>
    /\ project_text = ""
    /\ metadata = [document_type |-> "None", project_name |-> "None"]
    /\ doc_id = ""
    /\ runs = 0
    /\ merge_payload = None
    /\ frames = <<>>
    /\ session_store = <<>>
    /\ sessions_dir = <<>>
    /\ now = 0
    /\ follow_up = [session_id |-> "", given |-> FALSE, words |-> {}]
    /\ invoked = <<>>

NextParser == ParseCall

SpecParser == InitParser /\ [][NextParser]_vars

\* C24: the parser applied to a JSON object text in a code fence, with or
\* without the language tag, returns the object that parsing the text alone
\* returns.
C24_FencedSameAsBare ==
    (kind = "parse" /\ pc = "done" /\ wrapping = "fence")
    => /\ SafeParseJson(object_text).some
       /\ outcome = Returned(ParsedValue(SafeParseJson(object_text)))

\* C25: the parser applied to a JSON object text between two texts without
\* braces returns the object that parsing the text alone returns, and
\* applied to a text in which no { is followed by a } it returns None.
C25_ProseSameAsBare ==
    /\ (kind = "parse" /\ pc = "done" /\ wrapping = "prose")
       => outcome = Returned(ParsedValue(SafeParseJson(object_text)))
    /\ (kind = "parse" /\ pc = "done" /\ wrapping = "none")
       => outcome = Returned(NoValue)

-----------------------------------------------------------------------------
(* ingest_projects.ingest_project_text                                     *)

ALLOWED_DOCUMENT_TYPES == {"proposal", "case_study", "estimation", "architecture"}

\* the texts given for ingestion
ProjectTexts == {"", " ", "Plan A", "Plan B"}

\* the values of metadata["document_type"]: "None" for a missing key or a
\* value that is no string
DocumentTypeInputs == {"None", "", " ", "proposal", " Proposal ", "case_study", "invoice"}

\* the values of metadata["project_name"]; tech_stack and duration are absent
ProjectNameInputs == {"None", "", "Acme"}

MetadataInputs ==
    [document_type : DocumentTypeInputs, project_name : ProjectNameInputs]

\* str.strip().lower() of a document_type
NormalizedType(t) ==
    CASE t = " " -> ""
      [] t = " Proposal " -> "proposal"
      [] OTHER -> t

\* accepts every document_type that is a non-empty string
TypeAcceptedAny(t) == t # "None" /\ NormalizedType(t) # ""

\* lines 68-73: a string, not empty when stripped, among the allowed ones
TypeAccepted(t) ==
    /\ t # "None" /\ NormalizedType(t) # ""
    /\ NormalizedType(t) \in ALLOWED_DOCUMENT_TYPES

\* line 74: metadata.setdefault("project_name", "Unknown")
WithDefaults(md) ==
    [document_type |-> NormalizedType(md.document_type),
     project_name |-> IF md.project_name = "None" THEN "Unknown" ELSE md.project_name]

\* _build_text_document_id, on the metadata after the defaults of lines
\* 74-77 (tech_stack and duration are "Unknown" then): the hash of the
\* three fields when project_name is not empty, that of the text otherwise
BuildTextDocumentId(text, md) ==
    IF md.project_name # ""
    THEN "sha256(" \o md.project_name \o "|Unknown|Unknown)"
    ELSE "sha256(" \o text \o ")"

\* a vector of the index: the document it was made from, the call that
\* inserted it, its metadata
Vector(ref_doc_id, run, type, name) ==
    [ref_doc_id |-> ref_doc_id, run |-> run, document_type |-> type,
     project_name |-> name, score |-> 0]

\* the value ingest_project_text returns: a number of chunks
CountValue(n) == [shape |-> "count", document |-> <<n>>, obj |-> EmptyDict]

IngFrame ==
    UNCHANGED <<kind, requirements, document_type, retrieved, sections, activities,
                sec_idx, merged, section_prompt, section_retry_count, response,
                sections_generated, sections_expected, llm_calls, total_retries,
                deviants, calls, rfp_text, aggregated, rfp_summary, results,
                user_prompt, attempt, replies, sleeps, object_text, wrapping, merge_payload, frames,
                session_store, sessions_dir, now, follow_up, invoked>>

\* lines 62-82: the checks of the text and of the category, the defaults,
\* the id of the document
IngEntry ==
    /\ kind = "ingest" /\ pc = "entry"
    /\ IF project_text \in {"", " "}
       THEN /\ outcome' = Returned(CountValue(0))
            /\ pc' = "done"
            /\ log' = Append(log, LogRec("No project text provided for ingestion.", "", 0))
            /\ UNCHANGED <<metadata, doc_id>>
       ELSE IF ~TypeAccepted(metadata.document_type)
       THEN /\ outcome' = Raised("ValueError", "Invalid document_type")
            /\ pc' = "done"
            /\ UNCHANGED <<metadata, doc_id, log>>
       ELSE /\ metadata' = WithDefaults(metadata)
            /\ doc_id' = BuildTextDocumentId(project_text, WithDefaults(metadata))
            /\ pc' = "remove"
            /\ UNCHANGED <<outcome, log>>
    /\ IngFrame
    /\ UNCHANGED <<store, accesses, project_text, runs>>

\* lines 85-91: the embedding model, the vector store, and
\* _remove_existing_docs, whose delete may fail with a warning only
IngRemove ==
    /\ kind = "ingest" /\ pc = "remove"
    /\ \/ /\ accesses' = Append(accesses, Access("get_embedding_model", FALSE, 0, ""))
          /\ outcome' = Raised("RuntimeError", "Failed to initialize Bedrock embedding model")
          /\ pc' = "done"
          /\ UNCHANGED <<store, log>>
       \/ /\ accesses' = accesses \o <<Access("get_embedding_model", TRUE, 0, ""),
                                       Access("get_vector_store", FALSE, 0, "")>>
          /\ outcome' = Raised("RuntimeError", "Failed to initialize Chroma vector store")
          /\ pc' = "done"
          /\ UNCHANGED <<store, log>>
       \/ /\ accesses' = accesses \o <<Access("get_embedding_model", TRUE, 0, ""),
                                       Access("get_vector_store", TRUE, 0, ""),
                                       Access("delete", FALSE, 0, doc_id)>>
          /\ log' = Append(log, LogRec("Failed to delete existing vectors", doc_id, 0))
          /\ pc' = "insert"
          /\ UNCHANGED <<store, outcome>>
       \/ LET kept == SelectSeq(store, LAMBDA v : v.ref_doc_id # doc_id)
          IN  /\ accesses' = accesses \o <<Access("get_embedding_model", TRUE, 0, ""),
                                           Access("get_vector_store", TRUE, 0, ""),
                                           Access("delete", TRUE, Len(store) - Len(kept),
                                                  doc_id)>>
              /\ store' = kept
              /\ pc' = "insert"
              /\ UNCHANGED <<outcome, log>>
    /\ IngFrame
    /\ UNCHANGED <<project_text, metadata, doc_id, runs>>

\* lines 92-105: the chunks of the document, then their insertion
IngInsert ==
    /\ kind = "ingest" /\ pc = "insert"
    /\ \/ /\ outcome' = Raised("RuntimeError",
                               "Failed to chunk documents with semantic splitter")
          /\ UNCHANGED <<store, accesses, log>>
       \/ /\ outcome' = Returned(CountValue(0))
          /\ log' = Append(log, LogRec("No chunks produced for project text ingestion.",
                                       "", 0))
          /\ UNCHANGED <<store, accesses>>
       \/ /\ accesses' = Append(accesses, Access("insert_nodes", FALSE, 0, doc_id))
          /\ outcome' = Raised("Exception", "raised by the library")
          /\ UNCHANGED <<store, log>>
       \/ \E n \in 1..2 :
            /\ store' = store \o [i \in 1..n |->
                                    Vector(doc_id, runs, metadata.document_type,
                                           metadata.project_name)]
            /\ accesses' = Append(accesses, Access("insert_nodes", TRUE, n, doc_id))
            /\ log' = Append(log, LogRec("Indexed chunks from project text.", "", n))
            /\ outcome' = Returned(CountValue(n))
    /\ pc' = "done"
    /\ IngFrame
    /\ UNCHANGED <<project_text, metadata, doc_id, runs>>

\* the next call of ingest_project_text, with arguments of its own
IngAgain ==
    /\ kind = "ingest" /\ pc = "done"
    /\ runs < MaxIngestions
    /\ runs' = runs + 1
    /\ project_text' \in ProjectTexts
    /\ metadata' \in MetadataInputs
    /\ doc_id' = ""
    /\ accesses' = <<>>
    /\ log' = <<>>
    /\ outcome' = Running
    /\ pc' = "entry"
    /\ IngFrame
    /\ store' = store

InitIngestion ==
    /\ kind = "ingest"
    /\ pc = "entry"
    /\ requirements = ReqNone
    /\ document_type = ""
    /\ retrieved = <<>>
    /\ sections = <<>>
    /\ activities = <<>>
    /\ sec_idx = 0
    /\ merged = <<>>
    /\ section_prompt = NoPrompt
    /\ section_retry_count = 0
    /\ response = <<>>
    /\ sections_generated = 0
    /\ sections_expected = 0
    /\ llm_calls = 0
    /\ total_retries = 0
    /\ deviants = 0
    /\ calls = <<>>
    /\ log = <<>>
    /\ outcome = Running
    /\ rfp_text = <<>>
    /\ aggregated = <<>>
    /\ rfp_summary = ""
    /\ store = <<>>
    /\ results = <<>>
    /\ accesses = <<>>
    /\ user_prompt = ""
    /\ attempt = 0
    /\ replies = <<>>
    /\ sleeps = <<>>
    /\ object_text = <<>>
    /\ wrapping = ""
    /\ project_text \in ProjectTexts
    /\ metadata \in MetadataInputs
    /\ doc_id = ""
    /\ runs = 1
    /\ merge_payload = None
    /\ frames = <<>>
    /\ session_store = <<>>
    /\ sessions_dir = <<>>
    /\ now = 0
    /\ follow_up = [session_id |-> "", given |-> FALSE, words |-> {}]
    /\ invoked = <<>>

NextIngestion == IngEntry \/ IngRemove \/ IngInsert \/ IngAgain

SpecIngestion == InitIngestion /\ [][NextIngestion]_vars

\* the calls whose vectors of a document are in the index
LiveCopies(id) == {store[i].run : i \in {j \in 1..Len(store) : store[j].ref_doc_id = id}}

\* C26: between and after the calls of ingest_project_text the index holds
\* the vectors of at most one ingestion of each document id.
C26_OneLiveCopy ==
    (kind = "ingest" /\ pc \in {"entry", "done"}) =>
      \A i \in 1..Len(store) : Cardinality(LiveCopies(store[i].ref_doc_id)) <= 1

\* C27: a call with a text that is not empty and a category that is missing
\* or, stripped and in lower case, outside the four allowed ones ends in
\* ValueError at its first step, which leaves the index and the record of
\* its uses as they were.
C27_InvalidCategoryRejected ==
    [][ ( /\ kind = "ingest" /\ pc = "entry"
          /\ project_text \notin {"", " "}
          /\ metadata.document_type \notin
               {"proposal", " Proposal ", "case_study", "estimation", "architecture"} )
        => ( /\ pc' = "done"
             /\ outcome' = Raised("ValueError", "Invalid document_type")
             /\ store' = store
             /\ accesses' = accesses /\ accesses = <<>> ) ]_vars

\* the category invoice refused over an index that holds a document
C27_Witness ==
    /\ kind = "ingest" /\ pc = "done"
    /\ project_text = "Plan A" /\ metadata.document_type = "invoice"
    /\ outcome.exc = "ValueError"
    /\ store # <<>> /\ accesses = <<>>

-----------------------------------------------------------------------------
(* sow_service._merge_section on documents and payloads                    *)

\* the keys of the payloads: three of the template and one that is not
PayloadKeys == {"title", "confidentiality", "fees", "notes"}

\* the values of the payloads: a string, a number, an object
PayloadValues == {StrVal(1), NumVal(2), ObjVal("fees", 3)}

\* the payloads that are dicts, of at most two keys
PayloadDicts ==
    UNION {[ks -> PayloadValues] : ks \in {x \in SUBSET PayloadKeys : Cardinality(x) <= 2}}

\* the documents under construction: the skeleton after one merge
MergeTargets ==
    {MergeSection(EmptySowDocument, p) :
        p \in {EmptyDict} \cup {[k \in {"title"} |-> StrVal(7)],
                                [k \in {"fees"} |-> ObjVal("fees", 8)],
                                [k \in {"title", "fees"} |-> NumVal(9)]}}

\* lines 442-450: _merge_section(target, section_payload)
MergeCall ==
    /\ kind = "merge" /\ pc = "merge"
    /\ merged' = IF merge_payload.some
                 THEN MergeSection(merged, merge_payload.obj)
                 ELSE merged
    /\ pc' = "done"
    /\ UNCHANGED <<kind, requirements, document_type, retrieved, sections, activities,
                   sec_idx, section_prompt, section_retry_count, response,
                   sections_generated, sections_expected, llm_calls, total_retries,
                   deviants, calls, log, outcome, OtherVars>>

InitMerge ==
    /\ kind = "merge"
    /\ pc = "merge"
    /\ requirements = ReqNone
    /\ document_type = ""
    /\ retrieved = <<>>
    /\ sections = <<>>
    /\ activities = <<>>
    /\ sec_idx = 0
    /\ merged \in MergeTargets
    /\ section_prompt = NoPrompt
    /\ section_retry_count = 0
    /\ response = <<>>
    /\ sections_generated = 0
    /\ sections_expected = 0
    /\ llm_calls = 0
    /\ total_retries = 0
    /\ deviants = 0
    /\ calls = <<>>
    /\ log = <<>>
    /\ outcome = Running
    /\ rfp_text = <<>>
    /\ aggregated = <<>>
    /\ rfp_summary = ""
    /\ store = <<>>
    /\ results = <<>>
    /\ accesses = <<>>
    /\ user_prompt = ""
    /\ attempt = 0
    /\ replies = <<>>
    /\ sleeps = <<>>
    /\ object_text = <<>>
    /\ wrapping = ""
    /\ project_text = ""
    /\ metadata = [document_type |-> "None", project_name |-> "None"]
    /\ doc_id = ""
    /\ runs = 0
    /\ merge_payload \in {None} \cup {Some(p) : p \in PayloadDicts}
    /\ frames = <<>>
    /\ session_store = <<>>
    /\ sessions_dir = <<>>
    /\ now = 0
    /\ follow_up = [session_id |-> "", given |-> FALSE, words |-> {}]
    /\ invoked = <<>>

NextMerge == MergeCall

SpecMerge == InitMerge /\ [][NextMerge]_vars

\* C29: a call of _merge_section leaves the document with the keys it had,
\* in the places they had; a key that the payload holds has the payload's
\* value afterwards, every other key the value it had, and a payload that
\* is no dict leaves the document as it was.
C29_MergeFrame ==
    [][ (kind = "merge" /\ pc = "merge") =>
          /\ Len(merged') = Len(merged)
          /\ \A i \in 1..Len(merged) :
               /\ merged'[i][1] = merged[i][1]
               /\ merged'[i][2] =
                    IF merge_payload.some /\ merged[i][1] \in DOMAIN merge_payload.obj
                    THEN merge_payload.obj[merged[i][1]]
                    ELSE merged[i][2]
          /\ ~merge_payload.some => merged' = merged ]_vars

\* a payload with a new value for fees and a key the document lacks, merged
\* into a document whose title and fees had been written before
C29_Witness ==
    /\ kind = "merge" /\ pc = "done"
    /\ merge_payload.some
    /\ DOMAIN merge_payload.obj = {"fees", "notes"}
    /\ merge_payload.obj["fees"] = ObjVal("fees", 3)
    /\ DocGet(merged, "fees") = ObjVal("fees", 3)
    /\ DocGet(merged, "title") = NumVal(9)
    /\ ~DocHas(merged, "notes")

\* C30: a returned document that is the merged one has the keys of the
\* template in the order of the template, whatever the order of the section
\* list and whichever sections were left out.
C30_TemplateOrder ==
    (kind = "sow" /\ outcome.status = "returned" /\ outcome.value.shape = "sow")
    => DocKeys(outcome.value.document) =
         << "title", "date", "version", "provider", "client",
            "executive_summary", "confidentiality", "business_value",
            "definitions", "scope_of_services", "service_delivery",
            "resource_profiles", "fees", "expenses", "change_management",
            "acceptance_and_approvals" >>

\* the index named fees before title, both were written, and the returned
\* document has title first
C30_Witness ==
    /\ kind = "sow" /\ outcome.status = "returned" /\ outcome.value.shape = "sow"
    /\ sections = <<"fees", "title">>
    /\ DocGet(outcome.value.document, "fees") # DefaultValue("fees")
    /\ DocGet(outcome.value.document, "title") # DefaultValue("title")

-----------------------------------------------------------------------------
(* Two requests at a time: generate_statement_of_work from line 47 on and  *)
(* generate_estimation from line 34 on, each with the local variables of   *)
(* its own call                                                            *)

Requests == {1, 2}

\* one answer of the provider to a client.generate call: an exception, or a
\* text
Answer(raised, text) == [raised |-> raised, text |-> text]

\* the local variables of a call when its client has been built
InitFrame(k, found) ==
    [kind |-> k, pc |-> IF k = "sow" THEN "index_call" ELSE "call",
     retrieved |-> found, sections |-> <<>>, activities |-> <<>>, sec_idx |-> 0,
     merged |-> <<>>, section_retry_count |-> 0, sections_generated |-> 0,
     sections_expected |-> 0, llm_calls |-> 0, answers |-> <<>>,
     outcome |-> Running]

\* sow_service.py:157-240 for a merged document, which is always a dict
FrameValidated(f) ==
    [f EXCEPT !.pc = "done",
              !.outcome = Returned(ValidateSowDict(SowValue(f.merged)))]

\* the end of an iteration of the section loop
FrameAdvance(f) ==
    IF f.sec_idx < Len(f.sections)
    THEN [f EXCEPT !.sec_idx = f.sec_idx + 1, !.pc = "section_call"]
    ELSE FrameValidated(f)

\* one client.generate call of a request and the code that follows it up to
\* the next call or the end: sow_service.py:59-84, 103-155 and
\* estimation_service.py:36-50
FrameStep(f0, a) ==
    LET f == [f0 EXCEPT !.answers = Append(f0.answers, a)]
        parsed == SafeParseJson(a.text)
    IN  CASE f.pc = "index_call" ->
              IF a.raised
              THEN [f EXCEPT !.pc = "done",
                             !.outcome = Raised("RuntimeError", "SOW index generation failed")]
              ELSE LET index_data == IF parsed.some THEN parsed.obj ELSE EmptyDict
                   IN  [f EXCEPT !.llm_calls = f.llm_calls + 1,
                                 !.sections = SectionsOf(index_data),
                                 !.activities = ActivitiesOf(index_data),
                                 !.merged = EmptySowDocument,
                                 !.sections_generated = 0,
                                 !.sections_expected = Len(SectionsOf(index_data)),
                                 !.sec_idx = 1,
                                 !.pc = "section_call"]
          [] f.pc \in {"section_call", "section_retry"} ->
              IF a.raised
              THEN [f EXCEPT !.pc = "done",
                             !.outcome = Raised("RuntimeError",
                                                "SOW section generation failed")]
              ELSE IF PayloadMissing(parsed)
              THEN IF f.pc = "section_call"
                   THEN [f EXCEPT !.llm_calls = f.llm_calls + 1,
                                  !.section_retry_count = 1,
                                  !.pc = "section_retry"]
                   ELSE FrameAdvance([f EXCEPT !.llm_calls = f.llm_calls + 1])
              ELSE FrameAdvance(
                     [f EXCEPT !.llm_calls = f.llm_calls + 1,
                               !.section_retry_count =
                                   IF f.pc = "section_call" THEN 0 ELSE 1,
                               !.merged = MergeSection(f.merged, parsed.obj),
                               !.sections_generated = f.sections_generated + 1])
          [] f.pc = "call" ->
              IF a.raised
              THEN [f EXCEPT !.pc = "done",
                             !.outcome = Raised("RuntimeError", "Bedrock request failed")]
              ELSE IF parsed.some
              THEN [f EXCEPT !.pc = "done", !.outcome = Returned(DictValue(parsed.obj))]
              ELSE [f EXCEPT !.pc = "correction"]
          [] f.pc = "correction" ->
              IF a.raised
              THEN [f EXCEPT !.pc = "done",
                             !.outcome = Raised("RuntimeError", "Bedrock request failed")]
              ELSE IF parsed.some
              THEN [f EXCEPT !.pc = "done", !.outcome = Returned(DictValue(parsed.obj))]
              ELSE [f EXCEPT !.pc = "done",
                             !.outcome = Raised("ValueError", "LLM returned invalid JSON")]
          [] OTHER -> f0

\* what the provider may answer the call a request is about to make; the
\* answers to a request carry its number, so that those of two requests differ
AnswersTo(f, r) ==
    {Answer(TRUE, <<>>)} \cup
    CASE f.pc = "index_call" ->
           {Answer(FALSE, t) : t \in
              { <<Tick, Tick, Tick, JsonWord, Ws, LBrace,
                  Member("sections", ListVal(<<"fees", "title">>)), Comma,
                  Member("activities", ListVal(<<"Phase 1">>)), RBrace, Ws,
                  Tick, Tick, Tick>>,
                <<LBrace, Member("sections", ListVal(<<"title", "appendix", "title">>)),
                  Comma, Member("activities", StrVal(1)), RBrace>> }}
      [] f.pc \in {"section_call", "section_retry"} ->
           {Answer(FALSE, t) : t \in
              { NominalText(f.sections[f.sec_idx], 10 * r + f.llm_calls),
                ProseText,
                <<LBrace, Member("confidentiality", ObjVal("confidentiality", r)), Comma,
                  Ws, Member("notes", StrVal(r)), RBrace>> }}
      [] OTHER ->
           {Answer(FALSE, t) : t \in
              { <<LBrace, Member("timeline_months", NumVal(r)), RBrace>>,
                ProseText,
                <<Prose, LBrace, Member("team_composition", ListVal(<<"Architect">>)),
                  Comma, Member("timeline_months", NumVal(r)), RBrace, Prose>> }}

\* one document for all the requests, that of request 1
MergeTargetShared(r) == 1

\* sow_service.py:82: merged is a local variable of the call, bound to the
\* dict _empty_sow_document() has just built
MergeTarget(r) == r

\* a request makes its next provider call
ConcStep ==
    /\ kind = "concurrent"
    /\ \E r \in Requests :
         /\ frames[r].pc # "done"
         /\ \E a \in AnswersTo(frames[r], r) :
              LET t == MergeTarget(r)
                  g == FrameStep([frames[r] EXCEPT !.merged = frames[t].merged], a)
              IN  frames' = [q \in Requests |->
                               IF q = r THEN g
                               ELSE IF q = t THEN [frames[q] EXCEPT !.merged = g.merged]
                               ELSE frames[q]]
    /\ UNCHANGED <<kind, pc, requirements, document_type, retrieved, sections, activities,
                   sec_idx, merged, section_prompt, section_retry_count, response,
                   sections_generated, sections_expected, llm_calls, total_retries,
                   deviants, calls, log, outcome, rfp_text, aggregated, rfp_summary,
                   store, results, accesses, user_prompt, attempt, replies, sleeps,
                   object_text, wrapping, project_text, metadata, doc_id, runs,
                   merge_payload,
                session_store, sessions_dir, now, follow_up, invoked>>

InitConcurrent ==
    /\ kind = "concurrent"
    /\ pc = "running"
    /\ requirements = ReqFilled
    /\ document_type = ""
    /\ retrieved = <<>>
    /\ sections = <<>>
    /\ activities = <<>>
    /\ sec_idx = 0
    /\ merged = <<>>
    /\ section_prompt = NoPrompt
    /\ section_retry_count = 0
    /\ response = <<>>
    /\ sections_generated = 0
    /\ sections_expected = 0
    /\ llm_calls = 0
    /\ total_retries = 0
    /\ deviants = 0
    /\ calls = <<>>
    /\ log = <<>>
    /\ outcome = Running
    /\ rfp_text = <<>>
    /\ aggregated = <<>>
    /\ rfp_summary = ""
    /\ store = <<>>
    /\ results = <<>>
    /\ accesses = <<>>
    /\ user_prompt = ""
    /\ attempt = 0
    /\ replies = <<>>
    /\ sleeps = <<>>
    /\ object_text = <<>>
    /\ wrapping = ""
    /\ project_text = ""
    /\ metadata = [document_type |-> "None", project_name |-> "None"]
    /\ doc_id = ""
    /\ runs = 0
    /\ merge_payload = None
    /\ \E k1, k2 \in {"sow", "estimation"} :
         frames = [r \in Requests |-> InitFrame(IF r = 1 THEN k1 ELSE k2, <<"Project A">>)]
    /\ session_store = <<>>
    /\ sessions_dir = <<>>
    /\ now = 0
    /\ follow_up = [session_id |-> "", given |-> FALSE, words |-> {}]
    /\ invoked = <<>>

NextConcurrent == ConcStep

SpecConcurrent == InitConcurrent /\ [][NextConcurrent]_vars

\* the local variables of a request that runs alone and receives the given
\* answers, one after the other
RECURSIVE Alone(_, _)
Alone(f, given) ==
    IF given = <<>> THEN f ELSE Alone(FrameStep(f, Head(given)), Tail(given))

C31_ContextPreparation ==
    ( /\ kind = "sow" /\ pc = "done"
      /\ SummarizeRequirements(requirements) # <<>>
      /\ calls = <<>> )
    => outcome.exc \in {"VectorStoreEmptyError", "RuntimeError"}

\* the section names the loop issued a first provider call for, in order
SectionsCalled ==
    LET firsts == SelectSeq(calls, LAMBDA c : c.site = 103)
    IN  [i \in 1..Len(firsts) |-> sections[firsts[i].idx]]

\* C32 (as claimed): when the index response did not parse, so that the
\* default section ordering is taken, a request that reaches validation has
\* issued a provider call for every section of the default ordering, in the
\* order of that ordering.
C32_DefaultOrderingAttempted ==
    ( /\ kind = "sow" /\ LogHas("SOW_VALIDATION_START")
      /\ calls[1].result = "unparseable" )
    => SectionsCalled = DefaultSections

-----------------------------------------------------------------------------
(* Sessions: rfp_router.upload_rfp and rfp_router.follow_up                *)

SESSION_TTL_SECONDS == 3600

\* the clock of the model stops here
MaxNow == 5500

\* the time that passes between two requests
Elapses == {1800, 1801}

\* the ids of the session files; "" is a payload without session id, "s9" an
\* id no session has
SessionIds == {"s1", "s2"}
SessionIdInputs == SessionIds \cup {"", "s9"}

\* user_query: missing, or a text holding some of the words the intent
\* detection looks for
QueryWords == {"proposal", "estimate", "sow"}
UserQueries ==
    {[given |-> FALSE, words |-> {}]}
        \cup {[given |-> TRUE, words |-> w] : w \in SUBSET QueryWords}

SessionRequirements == {ReqFilled, ReqDict([k \in ReqKeys |-> <<>>])}
CreationTimes == {0, 1800}

\* lines 34-37: a session entry
SessionEntry(req, created) == [requirements |-> req, created_at |-> created]

\* json.dumps and json.loads of an entry: the file holds a text, not the entry
JsonDumps(entry) == <<"json", entry>>
EntryOfJson(text) == text[2]

NoEntry == [some |-> FALSE, entry |-> SessionEntry(ReqNone, 0)]
AnEntry(entry) == [some |-> TRUE, entry |-> entry]

DictSet(d, k, v) == [x \in DOMAIN d \cup {k} |-> IF x = k THEN v ELSE d[x]]
DictPop(d, k) == [x \in DOMAIN d \ {k} |-> d[x]]

\* lines 99-104: a failed write is logged and otherwise ignored
SessionSave(session_id, session_entry, written) ==
    IF written THEN DictSet(sessions_dir, session_id, JsonDumps(session_entry))
    ELSE sessions_dir

\* lines 107-115: None when there is no file or it cannot be read
SessionLoad(session_id, readable) ==
    IF session_id \in DOMAIN sessions_dir /\ readable
    THEN AnEntry(EntryOfJson(sessions_dir[session_id]))
    ELSE NoEntry

\* lines 118-124: a failed unlink is logged and otherwise ignored
SessionDelete(session_id, unlinked) ==
    IF session_id \in DOMAIN sessions_dir /\ unlinked
    THEN DictPop(sessions_dir, session_id)
    ELSE sessions_dir

HTTPException(status_code, detail) ==
    [status |-> "raised", exc |-> "HTTPException", msg |-> detail,
     value |-> NoValue, status_code |-> status_code]

\* lines 90-92
FollowUpFailed == HTTPException(500, "Failed to handle follow-up")

\* lines 78, 81, 84, 87: {"output": result}
FollowUpOutput(stage) == Returned(DictValue([k \in {"output"} |-> ObjVal(stage, 1)]))

\* lines 140-151
DetectGenerationIntent(words) ==
    IF "proposal" \in words THEN "proposal"
    ELSE IF "estimate" \in words THEN "estimation"
    ELSE IF "sow" \in words THEN "statement_of_work"
    ELSE "generic"

\* proposal_service.py:6-10
ProposalParams == {"rfp_text", "requirements", "similar_projects"}

StageRun(called, ending) == [invoked |-> called, outcome |-> ending]

\* lines 76-87: what the stage of a request calls and how it ends. The
\* category filter of line 73 only selects the chunks a retrieval finds.
StageRuns(intent, req) ==
    LET stage == intent
        query_empty == SummarizeRequirements(req) = <<>>
        retrieve == "retrieve_similar_projects"
    IN  CASE stage = "proposal" ->
               \* line 77: generate_proposal(requirements, document_type=...)
               IF CallBinds(ProposalParams, {"rfp_text", "document_type"})
               THEN {StageRun(<<"generate_proposal">>, FollowUpOutput("proposal"))}
               ELSE {StageRun(<<"generate_proposal">>, FollowUpFailed)}
          [] stage = "estimation" ->
               IF ~Truthy(req)
               THEN {StageRun(<<"generate_estimation">>, FollowUpFailed)}
               ELSE IF query_empty
               THEN {StageRun(<<"generate_estimation", retrieve>>, FollowUpFailed)}
               ELSE {StageRun(<<"generate_estimation", retrieve>>, FollowUpFailed)}
                    \cup {StageRun(<<"generate_estimation", retrieve, "generate">>, e) :
                            e \in {FollowUpFailed, FollowUpOutput("estimation")}}
                    \cup {StageRun(<<"generate_estimation", retrieve, "generate",
                                     "generate">>, e) :
                            e \in {FollowUpFailed, FollowUpOutput("estimation")}}
          [] stage = "statement_of_work" ->
               \* sow_service.py:22-31
               IF ~Truthy(req)
               THEN {StageRun(<<"generate_statement_of_work">>, FollowUpFailed)}
               ELSE IF ~CallBinds(RetrieveParams, {"rfp_summary", "document_type", "top_k"})
               THEN {StageRun(<<"generate_statement_of_work", retrieve>>, FollowUpFailed)}
               ELSE {StageRun(<<"generate_statement_of_work", retrieve, "generate">>,
                              FollowUpOutput("statement_of_work"))}
          [] OTHER ->
               \* lines 154-178
               IF query_empty
               THEN {StageRun(<<"_generic_llm_response", retrieve>>, FollowUpFailed)}
               ELSE {StageRun(<<"_generic_llm_response", retrieve>>, FollowUpFailed)}
                    \cup {StageRun(<<"_generic_llm_response", retrieve, "generate">>, e) :
                            e \in {FollowUpFailed, FollowUpOutput("response")}}

SessionFrame ==
    UNCHANGED <<kind, pc, requirements, document_type, retrieved, sections,
                activities, sec_idx, merged, section_prompt, section_retry_count,
                response, sections_generated, sections_expected, llm_calls,
                total_retries, deviants, calls, log, rfp_text, aggregated,
                rfp_summary, store, results, accesses, user_prompt, attempt,
                replies, sleeps, object_text, wrapping, project_text, metadata,
                doc_id, runs, merge_payload, frames>>

\* line 31: extract_text_from_upload is a coroutine function and is called
\* without await, so text is a coroutine object, not a str
UploadedText == [t |-> "coroutine"]

\* lines 28-47. extract_requirements (extraction_service.py:16) calls
\* rfp_text.strip(), which a coroutine object does not have: the
\* AttributeError is caught at line 45.
UploadRfp ==
    /\ kind = "session"
    /\ invoked' = <<"upload_rfp", "extract_requirements">>
    /\ IF UploadedText.t # "str"
       THEN /\ outcome' = HTTPException(500, "Failed to process RFP")
            /\ UNCHANGED <<session_store, sessions_dir>>
       ELSE \E session_id \in SessionIds \ (DOMAIN session_store \cup DOMAIN sessions_dir),
               req \in SessionRequirements, written \in BOOLEAN :
              LET session_entry == SessionEntry(req, now)
              IN  /\ session_store' = DictSet(session_store, session_id, session_entry)
                  /\ sessions_dir' = SessionSave(session_id, session_entry, written)
                  /\ outcome' = Returned(DictValue([k \in {"session_id"} |-> StrVal(1)]))
    /\ UNCHANGED <<now, follow_up>>
    /\ SessionFrame

\* lines 50-92
FollowUp ==
    /\ kind = "session"
    /\ \E session_id \in SessionIdInputs, user_query \in UserQueries,
          readable \in BOOLEAN, unlinked \in BOOLEAN :
         LET session_entry ==
                 IF session_id \in DOMAIN session_store
                 THEN AnEntry(session_store[session_id])
                 ELSE SessionLoad(session_id, readable)
             cached ==
                 IF session_entry.some
                 THEN DictSet(session_store, session_id, session_entry.entry)
                 ELSE session_store
         IN  /\ follow_up' = [session_id |-> session_id, given |-> user_query.given,
                              words |-> user_query.words]
             /\ IF session_id = "" \/ ~session_entry.some
                THEN /\ outcome' = HTTPException(400, "Invalid session_id")
                     /\ invoked' = <<"follow_up">>
                     /\ UNCHANGED <<session_store, sessions_dir>>
                ELSE IF now - session_entry.entry.created_at > SESSION_TTL_SECONDS
                THEN /\ session_store' = DictPop(cached, session_id)
                     /\ sessions_dir' = SessionDelete(session_id, unlinked)
                     /\ outcome' = HTTPException(400, "Session expired")
                     /\ invoked' = <<"follow_up">>
                ELSE IF ~user_query.given
                THEN /\ session_store' = cached
                     /\ outcome' = HTTPException(400, "user_query is required")
                     /\ invoked' = <<"follow_up">>
                     /\ UNCHANGED sessions_dir
                ELSE \E run \in StageRuns(DetectGenerationIntent(user_query.words),
                                          session_entry.entry.requirements) :
                       /\ session_store' = cached
                       /\ outcome' = run.outcome
                       /\ invoked' = <<"follow_up">> \o run.invoked
                       /\ UNCHANGED sessions_dir
    /\ UNCHANGED now
    /\ SessionFrame

\* time passes between two requests
Elapse ==
    /\ kind = "session"
    /\ \E d \in Elapses : now + d <= MaxNow /\ now' = now + d
    /\ UNCHANGED <<session_store, sessions_dir, follow_up, invoked, outcome>>
    /\ SessionFrame

\* line 22: the process starts again with an empty session_store; the files
\* of SESSIONS_DIR stay
Restart ==
    /\ kind = "session"
    /\ session_store # <<>>
    /\ session_store' = <<>>
    /\ UNCHANGED <<sessions_dir, now, follow_up, invoked, outcome>>
    /\ SessionFrame

\* lines 22-25: the store is empty and SESSIONS_DIR holds the files of
\* sessions saved earlier, none of them newer than the clock
SessionDirs ==
    UNION {[ids -> {JsonDumps(SessionEntry(req, created)) :
                      req \in SessionRequirements, created \in CreationTimes}] :
             ids \in SUBSET SessionIds}

InitSession ==
    /\ kind = "session"
    /\ pc = "serving"
    /\ requirements = ReqNone
    /\ document_type = ""
    /\ retrieved = <<>>
    /\ sections = <<>>
    /\ activities = <<>>
    /\ sec_idx = 0
    /\ merged = <<>>
    /\ section_prompt = NoPrompt
    /\ section_retry_count = 0
    /\ response = <<>>
    /\ sections_generated = 0
    /\ sections_expected = 0
    /\ llm_calls = 0
    /\ total_retries = 0
    /\ deviants = 0
    /\ calls = <<>>
    /\ log = <<>>
    /\ outcome = Running
    /\ rfp_text = <<>>
    /\ aggregated = <<>>
    /\ rfp_summary = ""
    /\ store = <<>>
    /\ results = <<>>
    /\ accesses = <<>>
    /\ user_prompt = ""
    /\ attempt = 0
    /\ replies = <<>>
    /\ sleeps = <<>>
    /\ object_text = <<>>
    /\ wrapping = ""
    /\ project_text = ""
    /\ metadata = [document_type |-> "None", project_name |-> "None"]
    /\ doc_id = ""
    /\ runs = 0
    /\ merge_payload = None
    /\ frames = <<>>
    /\ session_store = <<>>
    /\ sessions_dir \in SessionDirs
    /\ now \in {1800, 3600}
    /\ follow_up = [session_id |-> "", given |-> FALSE, words |-> {}]
    /\ invoked = <<>>

NextSession ==
    \/ UploadRfp
    \/ FollowUp
    \/ Elapse
    \/ Restart

SpecSession == InitSession /\ [][NextSession]_vars

\* the last request was a follow-up
FollowedUp == invoked # <<>> /\ invoked[1] = "follow_up"

\* C33 (as claimed): a follow-up with proposal intent on a session within
\* its TTL runs the proposal stage as the other stages run: it calls the
\* Retrieval Engine, then the provider once or twice, and returns the
\* proposal to the caller.
C33_ProposalFollowUp ==
    ( /\ FollowedUp
      /\ follow_up.given /\ "proposal" \in follow_up.words
      /\ outcome.msg \notin {"Invalid session_id", "Session expired"} )
    => /\ outcome.status = "returned"
       /\ Len(invoked) \in {4, 5}
       /\ invoked[3] = "retrieve_similar_projects"
       /\ \A i \in 4..Len(invoked) : invoked[i] = "generate"

\* C34 (as claimed, the eviction): a follow-up rejected as expired has run
\* no retrieval and no generation, and its session is then in neither the
\* in-memory store nor the on-disk store, so that any later follow-up with
\* its id finds no session.
C34_EvictionOnRead ==
    (FollowedUp /\ outcome.msg = "Session expired")
    => /\ invoked = <<"follow_up">>
       /\ follow_up.session_id \notin DOMAIN session_store
       /\ follow_up.session_id \notin DOMAIN sessions_dir

\* the extraction unit of loop position idx failed: its last call raised,
\* or its first and its correction response both failed to parse
UnitFailed(idx) ==
    /\ SectionCalls(idx) # {}
    /\ \/ calls[Greatest(SectionCalls(idx))].result = "raised"
       \/ SectionFailed(idx)

\* C35: extract_requirements is fail-fast: when the extraction unit of a
\* section has failed, the call has raised, the failed unit's call is the
\* last provider call (no call for a later section, no refinement call),
\* and no requirements object is returned.
C35_FailFast ==
    \A idx \in 1..Len(sections) :
        (kind = "extract" /\ UnitFailed(idx))
        => /\ pc = "done"
           /\ outcome.status = "raised"
           /\ calls[Len(calls)].idx = idx
           /\ \A i \in 1..Len(calls) : calls[i].idx \in 1..idx

\* the second of three sections failed with two unparseable responses
C35_Witness ==
    /\ kind = "extract" /\ pc = "done"
    /\ Len(sections) = 3
    /\ SectionFailed(2)
    /\ outcome = Raised("ValueError", "LLM returned invalid JSON after retry")

\* the request of SpecAssembler, where a step that can be taken is taken:
\* the process runs the function to its end and every provider call answers
\* (by returning or by raising)
SpecAssemblerFair == InitAssembler /\ [][NextAssembler]_vars /\ WF_vars(NextAssembler)

\* the provider calls that returned
ReturnedCalls(site) ==
    {i \in 1..Len(calls) : calls[i].site = site /\ calls[i].result # "raised"}

\* the sections closed as skipped
SectionsSkipped ==
    Cardinality({i \in 1..Len(log) : log[i][1] = "SOW_SECTION_END" /\ log[i][3] = 0})

C36_Bounded ==
    kind = "sow" =>
      /\ Len(sections) <= MAX_SECTIONS
      /\ Cardinality({i \in 1..Len(calls) : calls[i].site = 59}) <= 1
      /\ \A idx \in 1..Len(sections) : Cardinality(SectionCalls(idx)) <= 2
      /\ Cardinality(CorrectionCalls) <= 1
      /\ Len(calls) <= 1 + 2 * MAX_SECTIONS + 1
      /\ LogHas("SOW_INDEX_END") =>
           /\ llm_calls = 1 + Cardinality(ReturnedCalls(103)) + total_retries
           /\ total_retries = Cardinality(ReturnedCalls(120))
                                + Cardinality(ReturnedCalls(214))
           /\ sections_expected = Len(sections)
      /\ LogHas("SOW_MERGE_END") =>
           sections_generated + SectionsSkipped = sections_expected

\* C36: one request processes at most MAX_SECTIONS sections, a longer list
\* being cut to its first MAX_SECTIONS entries; it issues one index call, at
\* most two calls for a section and at most one correction call, so at most
\* 1 + 2 * MAX_SECTIONS + 1 provider calls; its call counter is 1 + the
\* sections attempted + the retries made; the sections generated and the
\* sections skipped add up to the sections expected; and it terminates.
C36_BoundedWork == []C36_Bounded /\ <>(pc = "done")

\* a request over a list of 11 names cut to 10 that returned after a retry
\* and with a section skipped
C36_Witness ==
    /\ kind = "sow" /\ pc = "done" /\ outcome.status = "returned"
    /\ calls[1].result = "parsed"
    /\ sections = SubSeq(LongSections, 1, MAX_SECTIONS)
    /\ Len(LongSections) > MAX_SECTIONS
    /\ total_retries > 0
    /\ SectionsSkipped > 0
    /\ llm_calls = Len(calls)

\* the hits handed to _format_results that carry a score
ScoredHits == {i \in 1..Len(results) : results[i].scored}

\* the name a hit is grouped under
GroupName(i) ==
    IF results[i].project_name = "" THEN "Unknown" ELSE results[i].project_name

\* C37: in a result of _format_results the project names are pairwise
\* distinct and none is empty (a hit without project name counts for
\* "Unknown"), every entry counts at least one chunk, exactly the hits with
\* a score of its name, so that the counts add up to the number of hits
\* with a score and a hit without score counts for no entry; with no scored
\* hit the result is empty.
C37_GroupsPartitionScoredHits ==
    (kind = "format" /\ pc = "done") =>
      LET counts == [p \in 1..Len(Matches) |-> Matches[p].number_of_matching_chunks]
      IN  /\ \A p, q \in 1..Len(Matches) :
                p # q => Matches[p].project_name # Matches[q].project_name
          /\ \A p \in 1..Len(Matches) :
                /\ Matches[p].project_name # ""
                /\ counts[p] >= 1
                /\ counts[p] = Cardinality({i \in ScoredHits :
                                              GroupName(i) = Matches[p].project_name})
          /\ Sum(counts) = Cardinality(ScoredHits)
          /\ ScoredHits = {} => Matches = <<>>

\* hits with and without score, one of the scored without a project name,
\* and a project with two scored hits
C37_Witness ==
    /\ kind = "format" /\ pc = "done"
    /\ Len(results) = 4
    /\ \E i \in 1..Len(results) : ~results[i].scored
    /\ \E i \in ScoredHits : results[i].project_name = ""
    /\ Len(Matches) = 2
    /\ \E p \in 1..Len(Matches) : Matches[p].number_of_matching_chunks = 2

\* the cleaned text and the positions of its lines that are no headings
CleanLines == CleanText(rfp_text)
BodyAt == {i \in 1..Len(CleanLines) : ~IsHeading(CleanLines[i])}

\* a run is a longest stretch of lines that are no headings; its first line
\* is the first line of the text or follows a heading
RunStarts == {i \in BodyAt : i = 1 \/ (i - 1) \notin BodyAt}
RunEnd(i) == Greatest({j \in BodyAt : j >= i /\ \A m \in i..j : m \in BodyAt})
NthStart(k) == CHOOSE i \in RunStarts : Cardinality({j \in RunStarts : j < i}) = k - 1
TitleBefore(i) == IF i = 1 THEN "Introduction" ELSE CleanLines[i - 1]

\* C38: the sections extract_requirements works on are the runs of lines
\* between the headings of the cleaned text, in order, each run whole and in
\* one section: every line that is no heading is in exactly one section and
\* the sections in order give these lines in their order; a run is titled
\* by the heading before it, the run before the first heading
\* "Introduction"; a heading followed by no such line gives no section; and
\* a text of heading lines only is worked on as the one section "RFP"
\* holding the whole text.
C38_SectionsPartitionText ==
    (kind = "extract" /\ pc # "entry" /\ sections # <<>>) =>
      IF BodyAt = {}
      THEN sections = << <<"RFP", CleanLines>> >>
      ELSE /\ Len(sections) = Cardinality(RunStarts)
           /\ \A k \in 1..Len(sections) :
                sections[k] = << TitleBefore(NthStart(k)),
                                 SubSeq(CleanLines, NthStart(k), RunEnd(NthStart(k))) >>

\* a text that begins with a line of running text and has two headings in
\* a row, the second followed by text
C38_Witness ==
    /\ kind = "extract" /\ pc # "entry"
    /\ Len(CleanLines) = 4
    /\ BodyAt = {1, 4}
    /\ Len(sections) = 2
    /\ sections[1][1] = "Introduction"

\* C39 (as claimed): a generate_estimation or generate_statement_of_work
\* request whose requirements object has its keys but only empty lists
\* passes the check of the argument, builds an empty query, and ends with
\* the ValueError of the retrieval's query check, no provider call issued.
C39_EmptyQueryRejectedByRetrieval ==
    ( /\ kind \in {"sow", "estimation"} /\ pc = "done"
      /\ Truthy(requirements)
      /\ SummarizeRequirements(requirements) = <<>> )
    => /\ outcome = Raised("ValueError", "Query cannot be empty")
       /\ calls = <<>>

====
